---- MODULE Spec2Model ----
(***************************************************************************)
(* Product catalog service: the category and product tables, the           *)
(* repositories working on a per-request session, the routes calling them, *)
(* the get_db dependency that commits or rolls the session back, and the   *)
(* event-logging service the product routes call.                          *)
(*                                                                         *)
(* The storage backend modelled is the PostgreSQL database get_db's engine *)
(* connects to: foreign keys, NOT NULL and the String(1000) length of      *)
(* Category.path are enforced when a statement is flushed.                 *)
(* One request is one action: handler, then get_db's commit or rollback.   *)
(***************************************************************************)
EXTENDS Integers, Sequences, FiniteSets, TLC

-----------------------------------------------------------------------------
(* Bounds of the model *)

\* category ids (uuid4 values) that can be handed out
MaxCats == 3
\* product ids (uuid4 values) that can be handed out
MaxProds == 1
\* longest Category.path the storage accepts (String(1000) scaled down)
MaxPathLen == 5

-----------------------------------------------------------------------------
(* Values *)

\* Python None for a UUID field (real ids are 1, 2, ...)
NoId == 0
\* Python None for a text or JSON field
None == "<None>"
\* Python None for a numeric field (valid prices and stock are >= 0)
NoneNum == 0 - 1

CatIds == 1..MaxCats
ProdIds == 1..MaxProds

VARIABLES
    categories,      \* committed rows of table "categories": id -> row
    products,        \* committed rows of table "products":   id -> row
    nextCat,         \* next fresh category id (uuid4 never repeats)
    nextProd,        \* next fresh product id
    events_enabled,  \* settings.events_enabled
    settings,        \* settings.environment and settings.database_url
    req,             \* the request handled last
    resp,            \* its response and what get_db did with the session
    logged,          \* the events the event service logged during it
    sessions,        \* the sessions get_db and get_db_context have handed out
    requests,        \* the requests on their way through the middleware stack
    contexts,        \* the logging context (ContextVars) of every task
    metrics,         \* http_requests_total and http_request_duration_seconds
    updater,         \* the BackgroundMetricsUpdater and its loop tasks
    lifespan         \* where the lifespan of the application stands

\* the tables, the settings and the request served last
Served == <<categories, products, nextCat, nextProd, events_enabled, settings, req, resp,
            logged>>

\* the state of the process outside them
Process == <<requests, contexts, metrics, updater, lifespan>>

vars == <<categories, products, nextCat, nextProd, events_enabled, settings, req, resp,
          logged, sessions, Process>>

-----------------------------------------------------------------------------
(* The session: the rows as the request's transaction sees them, the       *)
(* objects marked deleted and not flushed yet, and whether a statement of  *)
(* the transaction has failed (PostgreSQL then refuses to commit it).      *)

Session(cats, prods) ==
    [cats |-> cats, prods |-> prods, delCats |-> {}, delProds |-> {}, aborted |-> FALSE]

Put(f, k, v) == [x \in DOMAIN f \cup {k} |-> IF x = k THEN v ELSE f[x]]

Without(f, D) == [x \in DOMAIN f \ D |-> f[x]]

\* the delete cascade of Category.children left out
NoCascade(cats, S) == S

\* ids of S and of every category below them (Category.children, transitively)
RECURSIVE Subtree(_, _)
Subtree(cats, S) ==
    LET T == S \cup {c \in DOMAIN cats : cats[c].parent_id \in S}
    IN  IF T = S THEN S ELSE Subtree(cats, T)

\* strict descendants of id
Descendants(cats, id) ==
    Subtree(cats, {c \in DOMAIN cats : cats[c].parent_id = id})

-----------------------------------------------------------------------------
(* Storage constraints, checked when a statement is flushed *)

\* a statement of the transaction failed: PostgreSQL aborts the transaction
Abort(s) == [s EXCEPT !.aborted = TRUE]

\* Category.parent_id: ForeignKey("categories.id"), nullable
ParentFkOk(cats, row) == row.parent_id = NoId \/ row.parent_id \in DOMAIN cats

\* Category.path: String(1000), nullable=False
PathFits(row) == Len(row.path) <= MaxPathLen

\* Product.category_id: ForeignKey("categories.id", ondelete="RESTRICT"), nullable=False
CategoryFkOk(cats, row) == row.category_id # NoId /\ row.category_id \in DOMAIN cats

-----------------------------------------------------------------------------
(* CategoryRepository.  Every operation returns the session after it, its  *)
(* return value (an id stands for the loaded object, NoId for None) and    *)
(* the exception it raised: "none", "ValueError", or "DBError" for an      *)
(* error of the storage layer (IntegrityError, DataError, a lost           *)
(* connection when stmtFails).                                             *)

CategoryRepository_get(s, id) == IF id \in DOMAIN s.cats THEN id ELSE NoId

CategoryRepository_create(s, newid, kwargs, stmtFails) ==
    IF stmtFails THEN [s |-> Abort(s), ret |-> NoId, exc |-> "DBError"]
    ELSE IF kwargs.parent_id # NoId /\ CategoryRepository_get(s, kwargs.parent_id) = NoId
    THEN [s |-> s, ret |-> NoId, exc |-> "ValueError"]
    ELSE LET path == IF kwargs.parent_id # NoId
                     THEN s.cats[kwargs.parent_id].path \o "/" \o kwargs.name
                     ELSE kwargs.name
             category == [name |-> kwargs.name, parent_id |-> kwargs.parent_id,
                          description |-> kwargs.description, path |-> path]
         IN  \* session.add, session.flush (INSERT), session.refresh
             IF PathFits(category) /\ ParentFkOk(s.cats, category)
             THEN [s |-> [s EXCEPT !.cats = Put(s.cats, newid, category)],
                   ret |-> newid, exc |-> "none"]
             ELSE [s |-> Abort(s), ret |-> NoId, exc |-> "DBError"]

\* the path CategoryRepository.update regenerates; `cats` already holds the
\* attributes set on the category, and the parent is loaded from the same
\* session (for parent_id = id it is the category object itself)
RegeneratedPath(cats, category) ==
    IF category.parent_id # NoId
    THEN cats[category.parent_id].path \o "/" \o category.name
    ELSE category.name

CategoryRepository_update(s, id, kwargs, stmtFails) ==
    IF stmtFails THEN [s |-> Abort(s), ret |-> NoId, exc |-> "DBError"]
    ELSE IF CategoryRepository_get(s, id) = NoId
    THEN [s |-> s, ret |-> NoId, exc |-> "none"]
    ELSE LET old == s.cats[id]
             \* for key, value in kwargs.items(): setattr(category, key, value)
             set == [k \in DOMAIN old |-> IF k \in DOMAIN kwargs THEN kwargs[k] ELSE old[k]]
         IN  IF "name" \in DOMAIN kwargs \/ "parent_id" \in DOMAIN kwargs
             THEN IF set.parent_id # NoId /\ ~ParentFkOk(s.cats, set)
                  \* self.get(parent_id) autoflushes the UPDATE of parent_id first
                  THEN [s |-> Abort(s), ret |-> NoId, exc |-> "DBError"]
                  ELSE IF set.parent_id # NoId
                          /\ CategoryRepository_get(s, set.parent_id) = NoId
                  THEN [s |-> s, ret |-> NoId, exc |-> "ValueError"]
                  ELSE LET new == [set EXCEPT !.path =
                                       RegeneratedPath(Put(s.cats, id, set), set)]
                       IN  IF PathFits(new)
                           THEN [s |-> [s EXCEPT !.cats = Put(s.cats, id, new)],
                                 ret |-> id, exc |-> "none"]
                           ELSE [s |-> Abort(s), ret |-> NoId, exc |-> "DBError"]
             ELSE [s |-> [s EXCEPT !.cats = Put(s.cats, id, set)],
                   ret |-> id, exc |-> "none"]

\* session.delete(category): the category and, through the delete cascade of
\* Category.children, every category below it are marked deleted; the DELETEs
\* are sent when the session is flushed by commit
CategoryRepository_delete(s, id, stmtFails) ==
    IF stmtFails THEN [s |-> Abort(s), ret |-> FALSE, exc |-> "DBError"]
    ELSE IF CategoryRepository_get(s, id) = NoId
    THEN [s |-> s, ret |-> FALSE, exc |-> "none"]
    ELSE [s |-> [s EXCEPT !.delCats = Subtree(s.cats, {id})],
          ret |-> TRUE, exc |-> "none"]

-----------------------------------------------------------------------------
(* Faults a request can meet.                                              *)
(*   "stmt":   the first statement the repository sends raises             *)
(*   "cancel": the request's task is cancelled at the await that follows   *)
(*             the repository's flush (CancelledError, not an Exception)   *)
(*   "commit": session.commit() raises                                     *)

Faults == {"none", "stmt", "cancel", "commit"}

\* what a route hands back: the session, the status of the response it
\* returns or of the HTTPException it raises, the exception leaving it, the
\* events logged on the way, and the detail of the HTTPException
Returned(s, status) ==
    [s |-> s, status |-> status, exc |-> "none", logged |-> {}, detail |-> None]

Raised(s, status, detail) ==
    [s |-> s, status |-> status, exc |-> "HTTPException", logged |-> {},
     detail |-> [type |-> "str", value |-> detail]]

Cancelled(s) ==
    [s |-> s, status |-> 0, exc |-> "CancelledError", logged |-> {}, detail |-> None]

\* the body of the request did not pass the schema of the route: the
\* framework raises before the route runs
Invalid(s) ==
    [s |-> s, status |-> 422, exc |-> "RequestValidationError", logged |-> {},
     detail |-> None]

\* model_dump() of a body without its None values
IsNone(k, v) ==
    IF k \in {"parent_id", "category_id"} THEN v = NoId
    ELSE IF k \in {"price", "stock_quantity"} THEN v = NoneNum
    ELSE v = None

NonNone(dump) == [k \in {x \in DOMAIN dump : ~IsNone(x, dump[x])} |-> dump[k]]

-----------------------------------------------------------------------------
(* Category routes *)

\* a create_category that answers a missing parent like the update route
create_category_bad_request(s, newid, category_data, fault) ==
    LET r == CategoryRepository_create(s, newid, category_data, fault = "stmt")
    IN  IF r.exc = "ValueError" THEN Raised(r.s, 400, "Parent category not found")
        ELSE IF r.exc # "none" THEN Raised(r.s, 500, "Failed to create category")
        ELSE IF fault = "cancel" THEN Cancelled(r.s)
        ELSE Returned(r.s, 201)

create_category(s, newid, category_data, fault) ==
    LET r == CategoryRepository_create(s, newid, category_data, fault = "stmt")
    IN  IF r.exc = "ValueError" THEN Raised(r.s, 404, "Parent category not found")
        ELSE IF r.exc # "none" THEN Raised(r.s, 500, "Failed to create category")
        ELSE IF fault = "cancel" THEN Cancelled(r.s)
        ELSE Returned(r.s, 201)

get_category(s, category_id, fault) ==
    IF fault = "stmt" THEN Raised(Abort(s), 500, "Failed to get category")
    ELSE IF CategoryRepository_get(s, category_id) = NoId THEN Raised(s, 404, "Category not found")
    ELSE Returned(s, 200)

\* the whole dump, None values included
category_update_all(category_data) == category_data

\* {k: v for k, v in category_data.model_dump().items() if v is not None}
category_update_data(category_data) == NonNone(category_data)

update_category(s, category_id, category_data, fault) ==
    LET update_data == category_update_data(category_data)
    IN  IF DOMAIN update_data = {} THEN Raised(s, 400, "No update data provided")
        ELSE LET r == CategoryRepository_update(s, category_id, update_data, fault = "stmt")
             IN  IF r.exc = "ValueError" THEN Raised(r.s, 400, "Parent category not found")
                 ELSE IF r.exc # "none" THEN Raised(r.s, 500, "Failed to update category")
                 ELSE IF fault = "cancel" THEN Cancelled(r.s)
                 ELSE IF r.ret = NoId THEN Raised(r.s, 404, "Category not found")
                 ELSE Returned(r.s, 200)

delete_category(s, category_id, fault) ==
    LET r == CategoryRepository_delete(s, category_id, fault = "stmt")
    IN  IF r.exc # "none" THEN Raised(r.s, 500, "Failed to delete category")
        ELSE IF fault = "cancel" THEN Cancelled(r.s)
        ELSE IF ~r.ret THEN Raised(r.s, 404, "Category not found")
        ELSE Returned(r.s, 204)

-----------------------------------------------------------------------------
(* get_db: yield the session to the route, commit when the route returned, *)
(* roll back and re-raise on an Exception, close the session in any case.  *)

\* a category of D lies below itself
Cyclic(cats, D) == \E c \in D : c \in Descendants(cats, c)

\* a category marked deleted is still the category of a product that stays:
\* the product's category_id can neither be kept (RESTRICT) nor set to NULL
Restricted_off(s) == FALSE

Restricted(s) ==
    \E p \in DOMAIN s.prods \ s.delProds : s.prods[p].category_id \in s.delCats

\* session.commit(): flush what is pending, then COMMIT.  The flush of a
\* restricted delete fails.  What the unit of work does with rows that are
\* their own ancestors is not fixed by the code: unitOk is the outcome.
session_commit(s, commitFails, unitOk) ==
    IF s.aborted \/ commitFails \/ Restricted(s)
       \/ (Cyclic(s.cats, s.delCats) /\ ~unitOk)
    THEN [ok |-> FALSE, cats |-> s.cats, prods |-> s.prods]
    ELSE [ok |-> TRUE,
          cats |-> Without(s.cats, s.delCats),
          prods |-> Without(s.prods, s.delProds)]

\* a get_db that commits in its finally block, whatever the route raised
get_db_commit_in_finally(db, h, commitFails, unitOk) ==
    LET c == session_commit(h.s, commitFails, unitOk)
    IN  IF c.ok
        THEN [cats |-> c.cats, prods |-> c.prods, committed |-> TRUE, exc |-> h.exc]
        ELSE [cats |-> db.cats, prods |-> db.prods, committed |-> FALSE,
              exc |-> IF h.exc = "none" THEN "CommitError" ELSE h.exc]

\* db: the committed tables the session was opened on; h: what the route did
get_db(db, h, commitFails, unitOk) ==
    IF h.exc = "none"
    THEN LET c == session_commit(h.s, commitFails, unitOk)
         IN  IF c.ok
             THEN [cats |-> c.cats, prods |-> c.prods, committed |-> TRUE, exc |-> "none"]
             \* except Exception: rollback, raise
             ELSE [cats |-> db.cats, prods |-> db.prods, committed |-> FALSE,
                   exc |-> "CommitError"]
    \* HTTPException: rollback, raise; CancelledError: close() discards the
    \* transaction
    ELSE [cats |-> db.cats, prods |-> db.prods, committed |-> FALSE, exc |-> h.exc]

\* the status the client receives.  When the commit raises after the route
\* returned, the framework has either sent the route's response already or
\* turns the exception into a 500: sentEarly is which.  0: no response.
ResponseStatus(h, g, sentEarly) ==
    IF h.exc = "CancelledError" THEN 0
    ELSE IF g.exc = "CommitError" /\ ~sentEarly THEN 500
    ELSE h.status

-----------------------------------------------------------------------------
(* ProductRepository *)

\* str.lower() of one character (the capitals the model's texts use)
LowerChar(c) ==
    CASE c = "T" -> "t"
      [] c = "P" -> "p"
      [] c = "H" -> "h"
      [] c = "S" -> "s"
      [] OTHER -> c

\* str.lower()
RECURSIVE Lower(_)
Lower(str) ==
    IF str = "" THEN "" ELSE LowerChar(SubSeq(str, 1, 1)) \o Lower(Tail(str))

\* f"{product.name} {product.description or ''}".lower()
SearchVector(name, description) ==
    Lower(name) \o " " \o (IF description = None THEN "" ELSE Lower(description))

\* a bound that lets every number through
NonNegative_any(v) == TRUE

\* the bound on price and stock_quantity: ge=0 in the request schemas,
\* ">= 0" in the check constraints of the table
NonNegative(v) == v >= 0

\* CheckConstraint("price >= 0"), CheckConstraint("stock_quantity >= 0")
ChecksOk(row) == NonNegative(row.price) /\ NonNegative(row.stock_quantity)

ProductRepository_get(s, id) == IF id \in DOMAIN s.prods THEN id ELSE NoId

ProductRepository_create(s, newid, kwargs, stmtFails) ==
    LET product == [name |-> kwargs.name, description |-> kwargs.description,
                    category_id |-> kwargs.category_id, price |-> kwargs.price,
                    stock_quantity |-> kwargs.stock_quantity,
                    attributes |-> kwargs.attributes,
                    search_vector |-> SearchVector(kwargs.name, kwargs.description),
                    \* default=lambda: datetime.now(UTC), read at the flush:
                    \* the time of the create, later for every later create
                    created_at |-> newid]
    IN  \* session.add, session.flush (INSERT), session.refresh
        IF ~stmtFails /\ CategoryFkOk(s.cats, product) /\ ChecksOk(product)
        THEN [s |-> [s EXCEPT !.prods = Put(s.prods, newid, product)],
              ret |-> newid, exc |-> "none"]
        ELSE [s |-> Abort(s), ret |-> NoId, exc |-> "DBError"]

ProductRepository_update(s, id, kwargs, stmtFails) ==
    IF stmtFails THEN [s |-> Abort(s), ret |-> NoId, exc |-> "DBError"]
    ELSE IF ProductRepository_get(s, id) = NoId
    THEN [s |-> s, ret |-> NoId, exc |-> "none"]
    ELSE LET old == s.prods[id]
             \* for key, value in kwargs.items(): setattr(product, key, value)
             set == [k \in DOMAIN old |-> IF k \in DOMAIN kwargs THEN kwargs[k] ELSE old[k]]
             new == IF "name" \in DOMAIN kwargs \/ "description" \in DOMAIN kwargs
                    THEN [set EXCEPT !.search_vector = SearchVector(set.name, set.description)]
                    ELSE set
         IN  \* session.flush (UPDATE), session.refresh
             IF CategoryFkOk(s.cats, new) /\ ChecksOk(new)
             THEN [s |-> [s EXCEPT !.prods = Put(s.prods, id, new)],
                   ret |-> id, exc |-> "none"]
             ELSE [s |-> Abort(s), ret |-> NoId, exc |-> "DBError"]

\* delete that does not look the product up
ProductRepository_delete_blind(s, id, stmtFails) ==
    [s |-> [s EXCEPT !.delProds = s.delProds \cup ({id} \cap DOMAIN s.prods)],
     ret |-> TRUE, exc |-> "none"]

ProductRepository_delete(s, id, stmtFails) ==
    IF stmtFails THEN [s |-> Abort(s), ret |-> FALSE, exc |-> "DBError"]
    ELSE IF ProductRepository_get(s, id) = NoId
    THEN [s |-> s, ret |-> FALSE, exc |-> "none"]
    ELSE [s |-> [s EXCEPT !.delProds = s.delProds \cup {id}],
          ret |-> TRUE, exc |-> "none"]

-----------------------------------------------------------------------------
(* ProductCatalogEventService: each publish operation builds the event and *)
(* logs it inside its own try/except; the result is the set of events it   *)
(* logged.  logFails: building or logging the event raises.                *)

publish_product_created(product_id, name, category_id, price, logFails) ==
    IF logFails THEN {}
    ELSE {[event_type |-> "product.created", product_id |-> product_id,
           name |-> name, category_id |-> category_id, price |-> price]}

publish_product_updated(product_id, name, category_id, price, changes, logFails) ==
    IF logFails THEN {}
    ELSE {[event_type |-> "product.updated", product_id |-> product_id,
           name |-> name, category_id |-> category_id, price |-> price,
           changes |-> changes]}

publish_product_deleted(product_id, name, reason, logFails) ==
    IF logFails THEN {}
    ELSE {[event_type |-> "product.deleted", product_id |-> product_id,
           name |-> name, reason |-> reason]}

publish_price_changed(product_id, old_price, new_price, logFails) ==
    IF logFails THEN {}
    ELSE {[event_type |-> "product.price_changed", product_id |-> product_id,
           old_price |-> old_price, new_price |-> new_price]}

(* Faults of event publication.                                            *)
(*   "service": get_event_service() raises (caught by the route)           *)
(*   "log":     building or logging an event raises (caught in publish)    *)
EventFaults == {"none", "service", "log"}

\* reading attribute attr of a mapped Product object raises AttributeError
\* unless the class declares it
AttributeError(product, attr) == attr \notin DOMAIN product

-----------------------------------------------------------------------------
(* Product routes.  enabled is settings.events_enabled.                    *)

\* the object a repository call returned: repo.get and repo.update hand out
\* the session's one object for a row, so a reference taken before an update
\* reads the attributes as they are afterwards
Obj(s, ref) == s.prods[ref]

\* a create_product without the try/except around the publication
create_product_unguarded(s, newid, product_data, fault, evFault, enabled) ==
    LET r == ProductRepository_create(s, newid, product_data, fault = "stmt")
    IN  IF r.exc # "none" THEN Raised(r.s, 500, "Failed to create product")
        ELSE IF fault = "cancel" THEN Cancelled(r.s)
        ELSE IF enabled THEN Raised(r.s, 500, "Failed to create product")
        ELSE Returned(r.s, 201)

create_product(s, newid, product_data, fault, evFault, enabled) ==
    LET r == ProductRepository_create(s, newid, product_data, fault = "stmt")
    IN  IF r.exc # "none" THEN Raised(r.s, 500, "Failed to create product")
        ELSE IF fault = "cancel" THEN Cancelled(r.s)
        ELSE LET product == Obj(r.s, r.ret)
                 ev == IF ~enabled \/ evFault = "service" THEN {}
                       \* the arguments of the call are read first
                       ELSE IF AttributeError(product, "sku")
                               \/ AttributeError(product, "is_active") THEN {}
                       ELSE publish_product_created(r.ret, product.name,
                                product.category_id, product.price, evFault = "log")
             IN  [Returned(r.s, 201) EXCEPT !.logged = ev]

get_product(s, product_id, fault) ==
    IF fault = "stmt" THEN Raised(Abort(s), 500, "Failed to get product")
    ELSE IF ProductRepository_get(s, product_id) = NoId THEN Raised(s, 404, "Product not found")
    ELSE Returned(s, 200)

product_update_data(product_data) == NonNone(product_data)

update_product(s, product_id, product_data, fault, evFault, enabled) ==
    LET update_data == product_update_data(product_data)
        original_product == ProductRepository_get(s, product_id)
    IN  IF DOMAIN update_data = {} THEN Raised(s, 400, "No update data provided")
        ELSE IF fault = "stmt" THEN Raised(Abort(s), 500, "Failed to update product")
        ELSE IF original_product = NoId THEN Raised(s, 404, "Product not found")
        ELSE
        LET r == ProductRepository_update(s, product_id, update_data, FALSE)
        IN  IF r.exc # "none" THEN Raised(r.s, 500, "Failed to update product")
            ELSE IF fault = "cancel" THEN Cancelled(r.s)
            ELSE IF r.ret = NoId THEN Raised(r.s, 404, "Product not found")
            ELSE
            LET product == r.ret
                price_changed ==
                    IF "price" \in DOMAIN update_data
                       /\ Obj(r.s, original_product).price # Obj(r.s, product).price
                    THEN publish_price_changed(product,
                             Obj(r.s, original_product).price,
                             Obj(r.s, product).price, evFault = "log")
                    ELSE {}
                changes == {field \in DOMAIN update_data :
                               Obj(r.s, original_product)[field] # update_data[field]}
                ev == IF ~enabled \/ evFault = "service" THEN {}
                      ELSE IF AttributeError(Obj(r.s, product), "sku")
                              \/ AttributeError(Obj(r.s, product), "is_active")
                      THEN price_changed
                      ELSE price_changed \cup
                           publish_product_updated(product, Obj(r.s, product).name,
                               Obj(r.s, product).category_id, Obj(r.s, product).price,
                               changes, evFault = "log")
            IN  [Returned(r.s, 200) EXCEPT !.logged = ev]

delete_product(s, product_id, fault, evFault, enabled) ==
    LET product_to_delete == IF enabled THEN ProductRepository_get(s, product_id) ELSE NoId
        r == ProductRepository_delete(s, product_id, fault = "stmt")
    IN  IF r.exc # "none" THEN Raised(r.s, 500, "Failed to delete product")
        ELSE IF fault = "cancel" THEN Cancelled(r.s)
        ELSE IF ~r.ret THEN Raised(r.s, 404, "Product not found")
        ELSE LET ev == IF enabled /\ product_to_delete # NoId /\ evFault # "service"
                       THEN publish_product_deleted(product_id,
                                Obj(r.s, product_to_delete).name, "manual_deletion",
                                evFault = "log")
                       ELSE {}
             IN  [Returned(r.s, 204) EXCEPT !.logged = ev]

-----------------------------------------------------------------------------
(* Error handling.  An HTTPException leaving a route is handled by the     *)
(* exception handlers that create_exception_handlers registers: Starlette  *)
(* looks for a handler registered for the status code of the exception     *)
(* before it looks for one registered for its class; the handler keyed 500 *)
(* is the application's server error handler and is not among them.  Any   *)
(* other exception passes them and is caught by ErrorHandlingMiddleware.   *)
(* LoggingMiddleware, outside of it, sets X-Correlation-ID on the response.*)

\* the text of the exception the database driver raises when the probe of
\* the health check fails, and of the one session.commit() raises
ProbeErrorText == "connection refused"

CommitErrorText == "could not commit"

\* str(detail) of a detail that is a dict: {'k': 'v', 'k': 'v'}
RECURSIVE DictItems(_)
DictItems(items) ==
    IF Len(items) = 0 THEN ""
    ELSE "'" \o items[1][1] \o "': '" \o items[1][2] \o "'"
         \o (IF Len(items) = 1 THEN "" ELSE ", ") \o DictItems(Tail(items))

DictStr(items) == "{" \o DictItems(items) \o "}"

\* ErrorHandlingMiddleware.__init__
include_debug_info(environment) == environment = "development"

\* an ErrorResponse as model_dump(exclude_none=True) leaves it (debug_info
\* and traceback: whether the key is there), with the headers of its
\* JSONResponse
ErrorResponse(status_code, error, message, debug_info, traceback, headers) ==
    [status_code |-> status_code, error |-> error, message |-> message,
     debug_info |-> debug_info, traceback |-> traceback, headers |-> headers]

\* exc: [type, status_code, detail, headers, text]
_handle_http_exception(exc, include) ==
    ErrorResponse(exc.status_code,
                  "HTTP" \o ToString(exc.status_code),
                  IF exc.detail.type = "str" THEN exc.detail.value
                  ELSE DictStr(exc.detail.items),
                  exc.headers /\ include, FALSE, {})

_handle_unexpected_error(exc, include) ==
    IF ~include
    THEN ErrorResponse(500, "InternalServerError", "An unexpected error occurred",
                       FALSE, FALSE, {})
    ELSE ErrorResponse(500, exc.type, exc.text, TRUE, TRUE, {})

_handle_validation_error(exc, include) ==
    ErrorResponse(422, "ValidationError", "Request validation failed", FALSE, include, {})

handle_exception(exc, include) ==
    LET error_response == IF exc.type = "RequestValidationError"
                          THEN _handle_validation_error(exc, include)
                          ELSE IF exc.type = "HTTPException"
                          THEN _handle_http_exception(exc, include)
                          ELSE _handle_unexpected_error(exc, include)
    IN  [error_response EXCEPT !.headers = {"X-Correlation-ID", "X-Error-Code"}]

not_found_handler(path) ==
    ErrorResponse(404, "NotFound", "Resource not found: " \o path, FALSE, FALSE,
                  {"X-Correlation-ID"})

\* http_exception_handler: a fresh ErrorHandlingMiddleware handles it
http_exception_handler(exc, environment) ==
    handle_exception(exc, include_debug_info(environment))

\* the lookup Starlette does for an HTTPException: by status code, then by
\* class
exception_handlers(exc, path, environment) ==
    IF exc.status_code = 404 THEN not_found_handler(path)
    ELSE http_exception_handler(exc, environment)

\* ErrorHandlingMiddleware.dispatch for an exception that reached it
dispatch(exc, environment) == handle_exception(exc, include_debug_info(environment))

\* LoggingMiddleware.dispatch: the response with its correlation id
LoggingMiddleware(response) ==
    [response EXCEPT !.headers = @ \cup {"X-Correlation-ID"}]

\* a response that is not an error
JSONResponse(status_code) ==
    ErrorResponse(status_code, None, None, FALSE, FALSE, {})

\* no response at all (the request was cancelled)
NoResponse == ErrorResponse(0, None, None, FALSE, FALSE, {})

-----------------------------------------------------------------------------
(* One request: the route runs on a session opened on the committed        *)
(* tables, get_db commits or rolls back, the response goes out.            *)
(* req keeps the operation, the id in its path (for a POST the id the new  *)
(* row gets), the fields of its body that are not None, the parent_id of  *)
(* its body, and its faults.                                               *)
(* resp keeps the status sent, the exception get_db re-raised, the detail  *)
(* of the HTTPException the route raised, whether the session was          *)
(* committed, the categories the commit removed (each with the parent it   *)
(* had), and the response as it was sent.                                  *)

Open == Session(categories, products)

Request(op, id, body, fault, evFault) ==
    [op |-> op, id |-> id, fields |-> DOMAIN NonNone(body), fault |-> fault,
     evFault |-> evFault,
     parent_id |-> IF "parent_id" \in DOMAIN body THEN body.parent_id ELSE NoId]

NoBody == [x \in {} |-> None]

\* request.url.path
Path(request) ==
    CASE request.op = "POST category" -> "/api/v1/categories/"
      [] request.op \in {"GET category", "PUT category", "DELETE category"} ->
            "/api/v1/categories/" \o ToString(request.id)
      [] request.op \in {"POST product", "LIST products"} -> "/api/v1/products/"
      [] request.op = "SEARCH products" -> "/api/v1/products/search"
      [] request.op \in {"GET product", "PUT product", "DELETE product"} ->
            "/api/v1/products/" \o ToString(request.id)
      [] request.op = "GET health" -> "/health"

\* the response as the client receives it.  h: what the route did; g: what
\* get_db did with the session; sentEarly as for ResponseStatus
Response(request, h, g, sentEarly, environment) ==
    IF h.exc = "CancelledError" THEN NoResponse
    ELSE IF g.exc = "CommitError" /\ ~sentEarly
    THEN LoggingMiddleware(dispatch([type |-> "CommitError", text |-> CommitErrorText],
                                    environment))
    ELSE IF h.exc = "RequestValidationError"
    \* validation_exception_handler
    THEN LoggingMiddleware(handle_exception([type |-> "RequestValidationError"],
                                            include_debug_info(environment)))
    ELSE IF h.exc = "HTTPException"
    THEN LoggingMiddleware(
             exception_handlers([type |-> "HTTPException", status_code |-> h.status,
                                 detail |-> h.detail, headers |-> FALSE],
                                Path(request), environment))
    ELSE LoggingMiddleware(JSONResponse(h.status))

Serve(request, h) ==
    \E unitOk \in IF h.exc = "none" /\ Cyclic(h.s.cats, h.s.delCats)
                  THEN BOOLEAN ELSE {TRUE} :
      LET g == get_db([cats |-> categories, prods |-> products], h,
                      request.fault = "commit", unitOk)
      IN  \E sentEarly \in IF g.exc = "CommitError" THEN BOOLEAN ELSE {TRUE} :
            /\ categories' = g.cats
            /\ products' = g.prods
            /\ req' = request
            /\ resp' = [status |-> ResponseStatus(h, g, sentEarly),
                        exc |-> g.exc, detail |-> h.detail, committed |-> g.committed,
                        removed |-> [c \in DOMAIN categories \ DOMAIN g.cats |->
                                        categories[c].parent_id],
                        sent |-> Response(request, h, g, sentEarly,
                                          settings.environment)]
            /\ logged' = h.logged
            /\ nextCat' = IF nextCat \in DOMAIN g.cats THEN nextCat + 1 ELSE nextCat
            /\ nextProd' = IF nextProd \in DOMAIN g.prods THEN nextProd + 1 ELSE nextProd
            /\ UNCHANGED <<events_enabled, settings, sessions, Process>>

\* POST /api/v1/categories/
PostCategory(limit, Bodies, Flts) ==
    /\ nextCat <= limit
    /\ \E body \in Bodies, fault \in Flts :
          Serve(Request("POST category", nextCat, body, fault, "none"),
                create_category(Open, nextCat, body, fault))

\* GET /api/v1/categories/{category_id}
GetCategory(Ids, Flts) ==
    \E id \in Ids, fault \in Flts :
        Serve(Request("GET category", id, NoBody, fault, "none"), get_category(Open, id, fault))

\* PUT /api/v1/categories/{category_id}
PutCategory(Ids, Bodies, Flts) ==
    \E id \in Ids, body \in Bodies, fault \in Flts :
        Serve(Request("PUT category", id, body, fault, "none"),
              update_category(Open, id, body, fault))

\* DELETE /api/v1/categories/{category_id}
DeleteCategory(Ids, Flts) ==
    \E id \in Ids, fault \in Flts :
        Serve(Request("DELETE category", id, NoBody, fault, "none"),
              delete_category(Open, id, fault))

\* POST /api/v1/products/
PostProduct(limit, Bodies, Flts, EvFlts) ==
    /\ nextProd <= limit
    /\ \E body \in Bodies, fault \in Flts, evFault \in EvFlts :
          Serve(Request("POST product", nextProd, body, fault, evFault),
                create_product(Open, nextProd, body, fault, evFault, events_enabled))

\* GET /api/v1/products/{product_id}
GetProduct(Ids, Flts) ==
    \E id \in Ids, fault \in Flts :
        Serve(Request("GET product", id, NoBody, fault, "none"), get_product(Open, id, fault))

\* PUT /api/v1/products/{product_id}
PutProduct(Ids, Bodies, Flts, EvFlts) ==
    \E id \in Ids, body \in Bodies, fault \in Flts, evFault \in EvFlts :
        Serve(Request("PUT product", id, body, fault, evFault),
              update_product(Open, id, body, fault, evFault, events_enabled))

\* DELETE /api/v1/products/{product_id}
DeleteProduct(Ids, Flts, EvFlts) ==
    \E id \in Ids, fault \in Flts, evFault \in EvFlts :
        Serve(Request("DELETE product", id, NoBody, fault, evFault),
              delete_product(Open, id, fault, evFault, events_enabled))

\* no task has a logging context yet
NoContexts == <<>>

\* the Prometheus counter and histogram before the first request
NoMetrics == [http_requests_total |-> <<>>, http_request_duration_seconds |-> <<>>]

\* BackgroundMetricsUpdater.__init__.  tasks: the loop tasks it has created;
\* stops: the calls of stop that await a task; warned: start found it
\* running; returned: how the stop that returned last came back, the task it
\* awaited, and whether no start has been called since that stop began
BackgroundMetricsUpdater ==
    [_running |-> FALSE, _task |-> NoId, tasks |-> <<>>, stops |-> {},
     warned |-> FALSE, returned |-> [exc |-> None, quiet |-> FALSE, task |-> NoId]]

NoRows == [x \in {} |-> NoBody]

\* the Settings of config.py without the environment file
DefaultSettings == [environment |-> "development", database_url |-> None]

StartWith(enabled, Settings) ==
    /\ categories = NoRows
    /\ products = NoRows
    /\ nextCat = 1
    /\ nextProd = 1
    /\ events_enabled \in enabled
    /\ settings \in Settings
    /\ req = Request("none", NoId, NoBody, "none", "none")
    /\ resp = [status |-> 0, exc |-> "none", detail |-> None, committed |-> FALSE,
               removed |-> <<>>, sent |-> NoResponse]
    /\ logged = {}
    /\ sessions = <<>>
    /\ requests = <<>>
    /\ contexts = NoContexts
    /\ metrics = NoMetrics
    /\ updater = BackgroundMetricsUpdater
    /\ lifespan = [pc |-> "startup", closed |-> <<>>, failed |-> {}]

Start(enabled) == StartWith(enabled, {DefaultSettings})

-----------------------------------------------------------------------------
(* Spec: the category tree.  Categories are created under any parent, moved *)
(* under any parent and deleted; products are created in them and deleted. *)

CategoryBodies(Names, Parents, Descs) ==
    [name : Names, parent_id : Parents, description : Descs]

TreeProducts ==
    {[name |-> "Tv", description |-> None, category_id |-> c, price |-> 1,
      stock_quantity |-> 0, attributes |-> "{}"] : c \in CatIds}

Init == Start({TRUE})

Next ==
    \/ PostCategory(MaxCats, CategoryBodies({"a"}, {NoId} \cup CatIds, {None}), {"none"})
    \/ GetCategory(CatIds, {"none"})
    \/ PutCategory(CatIds, CategoryBodies({None}, {NoId} \cup CatIds, {None}), {"none"})
    \/ DeleteCategory(CatIds, {"none"})
    \/ PostProduct(MaxProds, TreeProducts, {"none"}, {"none"})
    \/ GetProduct(ProdIds, {"none"})
    \/ DeleteProduct(ProdIds, {"none"}, {"none"})

Spec == Init /\ [][Next]_vars

-----------------------------------------------------------------------------
(* Properties of the category tree (checked under Spec) *)

\* c is id or lies below id, following parent_id at most n times
RECURSIVE Reaches(_, _, _, _)
Reaches(cats, c, id, n) ==
    \/ c = id
    \/ /\ n > 0
       /\ c \in DOMAIN cats
       /\ cats[c].parent_id # NoId
       /\ Reaches(cats, cats[c].parent_id, id, n - 1)

\* id and the categories below it
Under(cats, id) == {c \in DOMAIN cats : Reaches(cats, c, id, Cardinality(DOMAIN cats))}

\* a product is assigned to id or to a category below it
HoldsProducts(cats, prods, id) ==
    \E p \in DOMAIN prods : prods[p].category_id \in Under(cats, id)

ProductsReferToCategories ==
    \A p \in DOMAIN products : products[p].category_id \in DOMAIN categories

\* C2: every product's category_id refers to an existing category, and a
\* DELETE of a category that has products, directly or in a category below
\* it, fails: nothing is committed, no category and no product is removed.
C2_RestrictedDelete ==
    /\ []ProductsReferToCategories
    /\ [][(/\ req'.op = "DELETE category"
           /\ req'.id \in DOMAIN categories
           /\ HoldsProducts(categories, products, req'.id))
          => (/\ ~resp'.committed
              /\ categories' = categories
              /\ products' = products)]_vars

\* a DELETE of a category failed at commit because a category below it
\* still has a product
C2_Witness ==
    /\ req.op = "DELETE category"
    /\ resp.exc = "CommitError"
    /\ req.id \in DOMAIN categories
    /\ \E p \in DOMAIN products :
          /\ products[p].category_id # req.id
          /\ products[p].category_id \in Under(categories, req.id)

ParentsExist ==
    \A c \in DOMAIN categories :
        categories[c].parent_id = NoId \/ categories[c].parent_id \in DOMAIN categories

\* C3: every non-null parent_id refers to an existing category, and a
\* committed DELETE of a category removes it and every category below it.
C3_CascadingDelete ==
    /\ []ParentsExist
    /\ [][(/\ req'.op = "DELETE category"
           /\ req'.id \in DOMAIN categories
           /\ resp'.committed)
          => Under(categories, req'.id) \cap DOMAIN categories' = {}]_vars

\* one DELETE removed a category, a child of it and a child of that child
C3_Witness ==
    /\ req.op = "DELETE category"
    /\ resp.committed
    /\ resp.status = 204
    /\ \E c \in DOMAIN resp.removed, d \in DOMAIN resp.removed :
          /\ c # req.id /\ d # req.id /\ c # d
          /\ resp.removed[c] = req.id
          /\ resp.removed[d] = c
          /\ resp.removed[req.id] = NoId

Kinds == {"category", "product"}

Table(kind, cats, prods) == IF kind = "category" THEN cats ELSE prods

Rows(kind) == Table(kind, categories, products)

\* a GET or DELETE of an id that is not there returns 404 and changes nothing
AbsentIs404 ==
    \A kind \in Kinds :
        (/\ req'.op \in {"GET " \o kind, "DELETE " \o kind}
         /\ req'.id \notin DOMAIN Rows(kind))
        => (/\ resp'.status = 404
            /\ categories' = categories
            /\ products' = products)

\* an id that was given out and is gone does not come back
StaysDeleted ==
    /\ \A c \in CatIds : c < nextCat /\ c \notin DOMAIN categories
                          => c \notin DOMAIN categories'
    /\ \A p \in ProdIds : p < nextProd /\ p \notin DOMAIN products
                          => p \notin DOMAIN products'

\* c is its own ancestor
OnCycle(cats, c) ==
    /\ cats[c].parent_id # NoId
    /\ Reaches(cats, cats[c].parent_id, c, Cardinality(DOMAIN cats))

\* C10 as stated: DELETE of an absent id returns 404 and changes nothing;
\* DELETE of a present id returns 204 and removes it, and from then on
\* every GET and every further DELETE of that id returns 404.  (Stated here
\* for categories that are not their own ancestor, where the outcome of the
\* commit is fixed by the code.)
C10_AsStated ==
    [][/\ AbsentIs404
       /\ StaysDeleted
       /\ \A kind \in Kinds :
            (/\ req'.op = "DELETE " \o kind
             /\ req'.id \in DOMAIN Rows(kind)
             /\ \A c \in DOMAIN categories : ~OnCycle(categories, c))
            => (/\ resp'.status = 204
                /\ req'.id \notin DOMAIN Table(kind, categories', products'))]_vars

\* C10, amended: DELETE of an absent id returns 404 and changes nothing.
\* DELETE of a present category that has products, directly or below it,
\* is not committed and the category stays.  Any other DELETE of a present
\* id either commits, returns 204 and removes the id, after which every GET
\* and further DELETE of it returns 404, or (only for a category with a
\* cycle of parents at or below it) does not commit and changes nothing.
C10_Delete ==
    [][/\ AbsentIs404
       /\ StaysDeleted
       /\ \A kind \in Kinds :
            (req'.op = "DELETE " \o kind /\ req'.id \in DOMAIN Rows(kind))
            => IF kind = "category" /\ HoldsProducts(categories, products, req'.id)
               THEN /\ ~resp'.committed
                    /\ resp'.status \in {204, 500}
                    /\ categories' = categories
                    /\ products' = products
               ELSE \/ /\ resp'.committed
                       /\ resp'.status = 204
                       /\ req'.id \notin DOMAIN Table(kind, categories', products')
                    \/ /\ ~resp'.committed
                       /\ kind = "category"
                       /\ \E c \in Under(categories, req'.id) : OnCycle(categories, c)
                       /\ categories' = categories
                       /\ products' = products]_vars

\* a GET of a category that was created and deleted returned 404
C10_Witness ==
    /\ req.op = "GET category"
    /\ req.id < nextCat
    /\ req.id \notin DOMAIN categories
    /\ resp.status = 404

-----------------------------------------------------------------------------
(* SpecPaths: names and paths.  Up to PathCats categories are created with *)
(* either name under any parent, renamed, moved, described and deleted.    *)

PathCats == 2

PathIds == 1..PathCats

NextPaths ==
    \/ PostCategory(PathCats, CategoryBodies({"a", "b"}, {NoId} \cup PathIds, {None}), {"none"})
    \/ GetCategory(PathIds, {"none"})
    \/ PutCategory(PathIds,
                   CategoryBodies({None, "a", "b"}, {NoId} \cup PathIds, {None, "d"}),
                   {"none"})
    \/ DeleteCategory(PathIds, {"none"})

SpecPaths == Init /\ [][NextPaths]_vars

-----------------------------------------------------------------------------
(* Properties of paths (checked under SpecPaths) *)

\* the path the parent chain of c gives it
ExpectedPath(cats, c) ==
    IF cats[c].parent_id = NoId
    THEN cats[c].name
    ELSE cats[cats[c].parent_id].path \o "/" \o cats[c].name

\* following parent_id from c ends at a root
Rooted(cats, c) ==
    \E r \in DOMAIN cats :
        cats[r].parent_id = NoId /\ Reaches(cats, c, r, Cardinality(DOMAIN cats))

\* C4: after any sequence of category creates, updates and deletes, the path
\* of every stored category is its name when it has no parent and its
\* parent's path, "/" and its name otherwise; a rename or a move of a
\* category shows in the paths of its children.  (Stated for the categories
\* whose parent chain ends at a root.)
C4_PathsFollowParents ==
    \A c \in DOMAIN categories :
        Rooted(categories, c) => categories[c].path = ExpectedPath(categories, c)

\* C5: right after a successful create or update of category C, C.path is
\* C.name when C has no parent and the parent's current path, "/" and C.name
\* when it has one; an update with neither name nor parent_id leaves C.path
\* as it was.
C5_PathOfSavedCategory ==
    [][(/\ req'.op \in {"POST category", "PUT category"}
        /\ resp'.committed
        /\ resp'.status \in {200, 201})
       => IF req'.op = "PUT category" /\ req'.fields \cap {"name", "parent_id"} = {}
          THEN categories'[req'.id].path = categories[req'.id].path
          ELSE categories'[req'.id].path = ExpectedPath(categories', req'.id)]_vars

-----------------------------------------------------------------------------
(* SpecFields: partial updates.  Two root categories and up to FieldProds  *)
(* products are created; category 1 and product 1 are updated with every   *)
(* choice of category fields and with no, one, two or all product fields.  *)

FieldProds == 2

ProductFields ==
    {"name", "description", "category_id", "price", "stock_quantity", "attributes"}

\* the ProductUpdate that supplies the fields F
ProductUpdate(F) ==
    [name |-> IF "name" \in F THEN "Pc" ELSE None,
     description |-> IF "description" \in F THEN "Hd" ELSE None,
     category_id |-> IF "category_id" \in F THEN 2 ELSE NoId,
     price |-> IF "price" \in F THEN 2 ELSE NoneNum,
     stock_quantity |-> IF "stock_quantity" \in F THEN 5 ELSE NoneNum,
     attributes |-> IF "attributes" \in F THEN "{color}" ELSE None]

NextFields ==
    \/ PostCategory(2, {[name |-> IF nextCat = 1 THEN "a" ELSE "c",
                         parent_id |-> NoId, description |-> None]}, {"none"})
    \/ PutCategory({1}, CategoryBodies({None, "b"}, {NoId, 2}, {None, "d"}), {"none"})
    \/ GetCategory({1, 2}, {"none"})
    \/ PostProduct(FieldProds,
                   {[name |-> "Tv", description |-> None, category_id |-> 1,
                     price |-> 1, stock_quantity |-> 0, attributes |-> "{}"]},
                   {"none"}, {"none"})
    \/ PutProduct({1},
                  {ProductUpdate(F) : F \in {G \in SUBSET ProductFields :
                                               Cardinality(G) <= 2 \/ G = ProductFields}},
                  {"none"}, {"none"})
    \/ GetProduct({1, 2}, {"none"})

SpecFields == Init /\ [][NextFields]_vars

-----------------------------------------------------------------------------
(* Properties of partial updates (checked under SpecFields) *)

CategoryFields == {"name", "parent_id", "description"}

\* the PUT of row req'.id left the fields it did not supply, and every
\* other row of both tables, as they were
OnlySuppliedFieldsChange(Fields, rows, rowsAfter, others, othersAfter) ==
    /\ othersAfter = others
    /\ DOMAIN rowsAfter = DOMAIN rows
    /\ \A r \in DOMAIN rows \ {req'.id} : rowsAfter[r] = rows[r]
    /\ \A f \in Fields \ req'.fields : rowsAfter[req'.id][f] = rows[req'.id][f]

-----------------------------------------------------------------------------
(* SpecEvents: faults and events.  events_enabled is either value.  One    *)
(* category and MaxProds products are created, updated in name and price   *)
(* and deleted; every request may fail in a statement, be cancelled after  *)
(* its write, or fail at commit, and every publication may fail.           *)

EventsProduct ==
    [name |-> "Tv", description |-> None, category_id |-> 1, price |-> 1,
     stock_quantity |-> 0, attributes |-> "{}"]

EventsUpdates == {ProductUpdate(F) : F \in SUBSET {"name", "price"}}

InitEvents == Start(BOOLEAN)

NextEvents ==
    \/ PostCategory(1, CategoryBodies({"a"}, {NoId}, {None}), Faults)
    \/ GetCategory({1}, Faults)
    \/ PostProduct(MaxProds, {EventsProduct}, Faults, EventFaults)
    \/ GetProduct(ProdIds, Faults)
    \/ PutProduct(ProdIds, EventsUpdates, Faults, EventFaults)
    \/ DeleteProduct(ProdIds, Faults, EventFaults)

SpecEvents == InitEvents /\ [][NextEvents]_vars

-----------------------------------------------------------------------------
(* Properties of transactions and events (checked under SpecEvents) *)

\* C1: a request's writes are all-or-nothing: when the handler, the flush
\* or the commit raises, the categories and products after the request are
\* those before it; they change only when the handler returned and the
\* commit went through.
C1_AllOrNothing ==
    [][/\ (req'.fault # "none" \/ resp'.exc # "none")
          => (categories' = categories /\ products' = products)
       /\ (categories' # categories \/ products' # products)
          => (resp'.committed /\ resp'.exc = "none" /\ resp'.status \in {200, 201, 204})]_vars

\* a POST of a product was cancelled after its INSERT, or failed at commit,
\* and no product was stored
C1_Witness ==
    /\ req.op = "POST product"
    /\ req.fault \in {"cancel", "commit"}
    /\ resp.exc \in {"CancelledError", "CommitError"}
    /\ DOMAIN categories = {1}
    /\ req.id = nextProd
    /\ req.id \notin DOMAIN products

\* C7: with events enabled, a successful PUT that changes the price of a
\* product from P1 to P2 logs a product.price_changed event with
\* old_price = P1 and new_price = P2.  (Stated for requests whose
\* publication meets no failure of the event service or the log.)
C7_PriceChangedLogged ==
    [][(/\ events_enabled
        /\ req'.op = "PUT product"
        /\ req'.evFault = "none"
        /\ resp'.status = 200
        /\ resp'.committed
        /\ products'[req'.id].price # products[req'.id].price)
       => \E e \in logged' :
             /\ e.event_type = "product.price_changed"
             /\ e.product_id = req'.id
             /\ e.old_price = products[req'.id].price
             /\ e.new_price = products'[req'.id].price]_vars

\* C8: with events enabled, every successful POST of a product logs one
\* product.created event with the product_id, name, category_id and price
\* of the new product.  (Stated for requests whose publication meets no
\* failure of the event service or the log.)
C8_CreatedLogged ==
    [][(/\ events_enabled
        /\ req'.op = "POST product"
        /\ req'.evFault = "none"
        /\ resp'.status = 201
        /\ resp'.committed)
       => /\ Cardinality({e \in logged' : e.event_type = "product.created"}) = 1
          /\ \E e \in logged' :
                /\ e.event_type = "product.created"
                /\ e.product_id = req'.id
                /\ e.name = products'[req'.id].name
                /\ e.category_id = products'[req'.id].category_id
                /\ e.price = products'[req'.id].price]_vars

\* the route of a product request, run with events disabled
WithoutEvents(r) ==
    CASE r.op = "POST product" ->
            create_product(Open, r.id, EventsProduct, r.fault, "none", FALSE)
      [] r.op = "PUT product" ->
            update_product(Open, r.id, ProductUpdate(r.fields), r.fault, "none", FALSE)
      [] r.op = "DELETE product" ->
            delete_product(Open, r.id, r.fault, "none", FALSE)

\* C9: event publication never alters the outcome of a product create,
\* update or delete: the status sent and the categories and products stored
\* are those of the same request served with events disabled, whether the
\* publication succeeds, raises, or events are disabled.
C9_EventsLeaveOutcome ==
    [][req'.op \in {"POST product", "PUT product", "DELETE product"}
       => LET h == WithoutEvents(req')
              g == get_db([cats |-> categories, prods |-> products], h,
                          req'.fault = "commit", TRUE)
          IN  /\ categories' = g.cats
              /\ products' = g.prods
              /\ \E sentEarly \in BOOLEAN :
                    resp'.status = ResponseStatus(h, g, sentEarly)]_vars

\* with events enabled a DELETE of a product whose publication failed
\* returned 204 and removed the product
C9_Witness ==
    /\ events_enabled
    /\ req.op = "DELETE product"
    /\ req.evFault \in {"service", "log"}
    /\ resp.status = 204
    /\ resp.committed
    /\ req.id \notin DOMAIN products
    /\ logged = {}

-----------------------------------------------------------------------------
(* Properties of requests that name a missing parent (checked under Spec) *)

\* the request names a parent_id that no category has
NamesMissingParent(r, cats) ==
    /\ "parent_id" \in r.fields
    /\ r.parent_id \notin DOMAIN cats

\* C11: a PUT of a category whose body names a parent_id that does not exist
\* is answered 404 and leaves the category (name, parent_id, path,
\* description) unchanged.  (Stated for a category that exists.)
C11_MissingParentOnUpdate ==
    [][(/\ req'.op = "PUT category"
        /\ req'.id \in DOMAIN categories
        /\ NamesMissingParent(req', categories))
       => (/\ resp'.status = 404
           /\ categories' = categories)]_vars

\* C12: a POST of a category whose parent_id refers to no existing category
\* is answered 404 and stores no category.
C12_MissingParentOnCreate ==
    [][(/\ req'.op = "POST category"
        /\ NamesMissingParent(req', categories))
       => (/\ resp'.status = 404
           /\ ~resp'.committed
           /\ categories' = categories
           /\ nextCat' = nextCat)]_vars

\* a POST under a parent that had been created and deleted was answered 404
\* next to a category that stayed
C12_Witness ==
    /\ req.op = "POST category"
    /\ resp.status = 404
    /\ "parent_id" \in req.fields
    /\ req.parent_id < nextCat
    /\ req.parent_id \notin DOMAIN categories
    /\ req.id \notin DOMAIN categories
    /\ DOMAIN categories # {}

-----------------------------------------------------------------------------
(* ProductRepository.list and count, and the list route *)

\* SQL LIKE: "%" in the pattern stands for any run of characters, "_" for
\* any one character, every other character for itself
RECURSIVE Like(_, _)
Like(text, pattern) ==
    IF pattern = "" THEN text = ""
    ELSE LET c == SubSeq(pattern, 1, 1)
         IN  IF c = "%"
             THEN Like(text, Tail(pattern)) \/ (text # "" /\ Like(Tail(text), pattern))
             ELSE /\ text # ""
                  /\ c = "_" \/ c = SubSeq(text, 1, 1)
                  /\ Like(Tail(text), Tail(pattern))

\* column.ilike(pattern): LIKE without regard to case; NULL matches nothing
ILike(text, pattern) == text # None /\ Like(Lower(text), Lower(pattern))

\* price bounds that leave the bound itself out
ListFilter_exclusive(prods, category_id, min_price, max_price, filters) ==
    {p \in DOMAIN prods :
        /\ category_id # NoId => prods[p].category_id = category_id
        /\ min_price # NoneNum => prods[p].price > min_price
        /\ max_price # NoneNum => prods[p].price < max_price}

\* the WHERE clauses ProductRepository.list and count build
ListFilter(prods, category_id, min_price, max_price, filters) ==
    {p \in DOMAIN prods :
        /\ category_id # NoId => prods[p].category_id = category_id
        /\ min_price # NoneNum => prods[p].price >= min_price
        /\ max_price # NoneNum => prods[p].price <= max_price
        /\ ("name" \in DOMAIN filters /\ filters.name # "")
           => ILike(prods[p].name, "%" \o filters.name \o "%")}

\* ORDER BY created_at DESC of the rows S (no two rows have one created_at)
RECURSIVE OrderByCreatedDesc(_, _)
OrderByCreatedDesc(prods, S) ==
    IF S = {} THEN <<>>
    ELSE LET first == CHOOSE p \in S :
                         \A q \in S : prods[q].created_at <= prods[p].created_at
         IN  <<first>> \o OrderByCreatedDesc(prods, S \ {first})

\* a page that always starts at the first row
OffsetLimit_from_start(rows, offset, limit) ==
    SubSeq(rows, 1, IF limit < Len(rows) THEN limit ELSE Len(rows))

\* stmt.offset(offset).limit(limit)
OffsetLimit(rows, offset, limit) ==
    LET last == IF offset + limit < Len(rows) THEN offset + limit ELSE Len(rows)
    IN  IF offset >= Len(rows) THEN <<>> ELSE SubSeq(rows, offset + 1, last)

ProductRepository_list(s, offset, limit, category_id, min_price, max_price, filters) ==
    OffsetLimit(OrderByCreatedDesc(s.prods,
                    ListFilter(s.prods, category_id, min_price, max_price, filters)),
                offset, limit)

ProductRepository_count(s, category_id, min_price, max_price, filters) ==
    Cardinality(ListFilter(s.prods, category_id, min_price, max_price, filters))

\* a route result with the body of its response and the number of queries
\* it sent to the database
WithBody(h, body, queries) ==
    [s |-> h.s, status |-> h.status, exc |-> h.exc, logged |-> h.logged,
     detail |-> h.detail, body |-> body, queries |-> queries]

\* GET /api/v1/products/; q holds the query parameters
list_products(s, q, fault) ==
    IF q.min_price # NoneNum /\ q.max_price # NoneNum /\ q.min_price > q.max_price
    THEN WithBody(Raised(s, 400, "min_price cannot be greater than max_price"), NoBody, 0)
    ELSE IF fault = "stmt" THEN WithBody(Raised(Abort(s), 500, "Failed to list products"), NoBody, 1)
    ELSE LET filters == IF q.name # None /\ q.name # ""
                        THEN [name |-> q.name] ELSE NoBody
             found == ProductRepository_list(s, q.offset, q.limit, q.category_id,
                                             q.min_price, q.max_price, filters)
             total == ProductRepository_count(s, q.category_id, q.min_price,
                                              q.max_price, filters)
         IN  IF fault = "cancel" THEN WithBody(Cancelled(s), NoBody, 2)
             ELSE WithBody(Returned(s, 200),
                           [products |-> found, total |-> total,
                            offset |-> q.offset, limit |-> q.limit], 2)

\* a request that reads: req keeps its query parameters, resp the body sent
\* and the number of queries the route made
ServeQuery(op, q, fault, h) ==
    LET g == get_db([cats |-> categories, prods |-> products], h, fault = "commit", TRUE)
    IN  \E sentEarly \in IF g.exc = "CommitError" THEN BOOLEAN ELSE {TRUE} :
          LET sent == ResponseStatus(h, g, sentEarly)
          IN  /\ categories' = g.cats
              /\ products' = g.prods
              /\ req' = Request(op, NoId, NoBody, fault, "none") @@ [query |-> q]
              /\ resp' = [status |-> sent, exc |-> g.exc, detail |-> h.detail,
                          committed |-> g.committed, removed |-> <<>>,
                          sent |-> Response(Request(op, NoId, NoBody, fault, "none"),
                                            h, g, sentEarly, settings.environment),
                          body |-> IF sent = 200 THEN h.body ELSE NoBody,
                          queries |-> h.queries]
              /\ logged' = h.logged
              /\ UNCHANGED <<nextCat, nextProd, events_enabled, settings, sessions,
                             Process>>

ListProducts(Queries, Flts) ==
    \E q \in Queries, fault \in Flts :
        ServeQuery("LIST products", q, fault, list_products(Open, q, fault))

-----------------------------------------------------------------------------
(* SpecList: listing.  Two root categories and up to ListProds products of *)
(* three prices are created and listed: with a price range (no bound, a    *)
(* bound of 0, inverted bounds) with or without a category, or with a part *)
(* of a name, from two offsets and with two limits.                        *)

ListProds == 3

ListBody(price, category_id) ==
    [name |-> IF price = 1 THEN "Pc" ELSE "Tv", description |-> None,
     category_id |-> category_id, price |-> price, stock_quantity |-> 0,
     attributes |-> "{}"]

ListQueries ==
    [category_id : {NoId, 1}, min_price : {NoneNum, 0, 2}, max_price : {NoneNum, 0, 1},
     name : {None}, offset : {0, 1}, limit : {1, 3}]
    \cup
    [category_id : {NoId, 1}, min_price : {NoneNum}, max_price : {NoneNum},
     name : {"t"}, offset : {0, 1}, limit : {1, 3}]

NextList ==
    \/ PostCategory(2, CategoryBodies({"a"}, {NoId}, {None}), {"none"})
    \/ PostProduct(ListProds,
                   {ListBody(0, 1), ListBody(1, 1), ListBody(2, 1), ListBody(1, 2)},
                   {"none"}, {"none"})
    \/ ListProducts(ListQueries, {"none"})

SpecList == Init /\ [][NextList]_vars

-----------------------------------------------------------------------------
(* Properties of listing (checked under SpecList) *)

\* the price lies within the bounds the query supplies
InPriceRange(price, q) ==
    /\ q.min_price # NoneNum => q.min_price <= price
    /\ q.max_price # NoneNum => price <= q.max_price

\* text contains term, without regard to case
Contains(text, term) ==
    \E i \in 1..(Len(text) - Len(term) + 1) :
        SubSeq(Lower(text), i, i + Len(term) - 1) = Lower(term)

\* the stored products a list query asks for
Listed(q) ==
    {p \in DOMAIN products :
        /\ InPriceRange(products[p].price, q)
        /\ q.category_id # NoId => products[p].category_id = q.category_id
        /\ q.name \notin {None, ""} => Contains(products[p].name, q.name)}

Elements(seq) == {seq[i] : i \in 1..Len(seq)}

\* C13: GET /api/v1/products with both bounds and min_price > max_price
\* returns 400 without a query; otherwise it returns exactly the stored
\* products p with min_price <= p.price <= max_price, each bound applied
\* only when supplied (a bound of 0 is a bound), subject to the other
\* filters and to pagination.
C13_PriceRange ==
    [][req'.op = "LIST products"
       => LET q == req'.query
          IN  IF q.min_price # NoneNum /\ q.max_price # NoneNum
                 /\ q.min_price > q.max_price
              THEN /\ resp'.status = 400
                   /\ resp'.queries = 0
                   /\ resp'.body = NoBody
              ELSE /\ resp'.status = 200
                   /\ Elements(resp'.body.products) \subseteq Listed(q)
                   /\ resp'.body.total = Cardinality(Listed(q))
                   /\ (q.offset = 0 /\ q.limit >= Cardinality(Listed(q)))
                      => Elements(resp'.body.products) = Listed(q)]_vars

\* a list with min_price 0 and max_price 1 returned the products priced 0
\* and 1 and left out a stored product priced 2
C13_Witness ==
    /\ req.op = "LIST products"
    /\ req.query.min_price = 0
    /\ req.query.max_price = 1
    /\ resp.status = 200
    /\ {products[p].price : p \in Elements(resp.body.products)} = {0, 1}
    /\ \E p \in DOMAIN products : products[p].price = 2

\* C14: the page of a product listing is the slice [offset, offset + limit)
\* of the matching products ordered newest-created first, so it has at most
\* limit items, and total is the number of all matching products whatever
\* offset and limit are.
C14_PageAndTotal ==
    [][(req'.op = "LIST products" /\ resp'.status = 200)
       => LET q == req'.query
              page == resp'.body.products
              n == Cardinality(Listed(q))
          IN  /\ resp'.body.total = n
              /\ Len(page) <= q.limit
              /\ Len(page) = IF q.offset >= n THEN 0
                             ELSE IF n - q.offset < q.limit THEN n - q.offset
                             ELSE q.limit
              /\ \A i \in 1..Len(page) :
                    /\ page[i] \in Listed(q)
                    /\ Cardinality({r \in Listed(q) : products[r].created_at
                                        > products[page[i]].created_at})
                       = q.offset + i - 1]_vars

\* a list with offset 1 and limit 1 over three matching products returned
\* the second newest alone
C14_Witness ==
    /\ req.op = "LIST products"
    /\ resp.status = 200
    /\ req.query.offset = 1
    /\ req.query.limit = 1
    /\ resp.body.total = 3
    /\ resp.body.products = <<2>>

-----------------------------------------------------------------------------
(* ProductRepository.search and search_count, and the search route *)

RECURSIVE LStrip(_)
LStrip(str) ==
    IF str # "" /\ SubSeq(str, 1, 1) = " " THEN LStrip(Tail(str)) ELSE str

RECURSIVE RStrip(_)
RStrip(str) ==
    IF str # "" /\ SubSeq(str, Len(str), Len(str)) = " "
    THEN RStrip(SubSeq(str, 1, Len(str) - 1)) ELSE str

\* str.strip()
Strip(str) == LStrip(RStrip(str))

\* search_term = query.lower().strip()
SearchTerm(query) == Strip(Lower(query))

\* the WHERE clauses ProductRepository.search and search_count build
SearchFilter(prods, query, category_id) ==
    LET search_term == SearchTerm(query)
        pattern == "%" \o search_term \o "%"
    IN  {p \in DOMAIN prods :
            /\ \/ ILike(prods[p].name, pattern)
               \/ ILike(prods[p].description, pattern)
               \/ ILike(prods[p].search_vector, pattern)
            /\ category_id # NoId => prods[p].category_id = category_id}

\* the ORDER BY keys of a row: the three ilike tests on the name (a true
\* test sorts first under DESC) and created_at
SearchKeys(row, search_term) ==
    <<IF ILike(row.name, search_term) THEN 1 ELSE 0,
      IF ILike(row.name, search_term \o "%") THEN 1 ELSE 0,
      IF ILike(row.name, "%" \o search_term \o "%") THEN 1 ELSE 0,
      row.created_at>>

\* keys k sort at or before keys l when every key is ordered DESC
RECURSIVE DescNotAfter(_, _)
DescNotAfter(k, l) ==
    \/ k = <<>>
    \/ Head(k) > Head(l)
    \/ Head(k) = Head(l) /\ DescNotAfter(Tail(k), Tail(l))

RECURSIVE OrderBySearchKeys(_, _, _)
OrderBySearchKeys(prods, S, search_term) ==
    IF S = {} THEN <<>>
    ELSE LET first == CHOOSE p \in S :
                         \A q \in S : DescNotAfter(SearchKeys(prods[p], search_term),
                                                   SearchKeys(prods[q], search_term))
         IN  <<first>> \o OrderBySearchKeys(prods, S \ {first}, search_term)

ProductRepository_search(s, query, offset, limit, category_id) ==
    OffsetLimit(OrderBySearchKeys(s.prods, SearchFilter(s.prods, query, category_id),
                                  SearchTerm(query)),
                offset, limit)

ProductRepository_search_count(s, query, category_id) ==
    Cardinality(SearchFilter(s.prods, query, category_id))

\* GET /api/v1/products/search; q holds the query parameters
search_products(s, q, fault) ==
    IF fault = "stmt" THEN WithBody(Raised(Abort(s), 500, "Failed to search products"), NoBody, 1)
    ELSE LET found == ProductRepository_search(s, q.q, q.offset, q.limit, q.category_id)
             total == ProductRepository_search_count(s, q.q, q.category_id)
         IN  IF fault = "cancel" THEN WithBody(Cancelled(s), NoBody, 2)
             ELSE WithBody(Returned(s, 200),
                           [products |-> found, total |-> total, offset |-> q.offset,
                            limit |-> q.limit, query |-> q.q], 2)

SearchProducts(Queries, Flts) ==
    \E q \in Queries, fault \in Flts :
        ServeQuery("SEARCH products", q, fault, search_products(Open, q, fault))

-----------------------------------------------------------------------------
(* SpecSearch: search.  Two root categories and up to SearchProds products *)
(* are created: named as the term, starting with it, containing it, or     *)
(* having it in the description only.  They are searched with the term,    *)
(* the term in other case between blanks, and a term with "_" in it.       *)

SearchProds == 3

SearchBody(name, description, category_id) ==
    [name |-> name, description |-> description, category_id |-> category_id,
     price |-> 1, stock_quantity |-> 0, attributes |-> "{}"]

SearchQueries ==
    [q : {"tv", " Tv ", "_v"}, category_id : {NoId, 1}, offset : {0, 1}, limit : {1, 3}]

NextSearch ==
    \/ PostCategory(2, CategoryBodies({"a"}, {NoId}, {None}), {"none"})
    \/ PostProduct(SearchProds,
                   {SearchBody("Tv", None, 1), SearchBody("Tv set", None, 1),
                    SearchBody("Hd tv", None, 2), SearchBody("Pc", "tv", 1)},
                   {"none"}, {"none"})
    \/ SearchProducts(SearchQueries, {"none"})

SpecSearch == Init /\ [][NextSearch]_vars

-----------------------------------------------------------------------------
(* Properties of search (checked under SpecSearch) *)

\* the query trimmed and lower-cased
Term(q) == Strip(Lower(q.q))

StartsWith(text, term) ==
    Len(term) <= Len(text) /\ SubSeq(Lower(text), 1, Len(term)) = Lower(term)

\* the stored products whose name, description or search_vector contains
\* the term, within the category of the query
Found(q) ==
    {p \in DOMAIN products :
        /\ \/ Contains(products[p].name, Term(q))
           \/ products[p].description # None /\ Contains(products[p].description, Term(q))
           \/ products[p].search_vector # None
              /\ Contains(products[p].search_vector, Term(q))
        /\ q.category_id # NoId => products[p].category_id = q.category_id}

\* 0: the name equals the term, 1: it starts with it, 2: it contains it,
\* 3: the rest
Relevance(row, term) ==
    IF Lower(row.name) = term THEN 0
    ELSE IF StartsWith(row.name, term) THEN 1
    ELSE IF Contains(row.name, term) THEN 2
    ELSE 3

\* product r comes before product p in the result of a search for term
Precedes(r, p, term) ==
    \/ Relevance(products[r], term) < Relevance(products[p], term)
    \/ /\ Relevance(products[r], term) = Relevance(products[p], term)
       /\ products[r].created_at > products[p].created_at

\* C15: product search returns exactly the products, within the optional
\* category, whose name, description or search_vector contains the trimmed,
\* lower-cased query without regard to case; products whose name equals the
\* term come first, then those whose name starts with it, then those whose
\* name contains it, then the rest, newest-created first within each group;
\* offset and limit are applied after this ordering.
C15_SearchResults ==
    [][(req'.op = "SEARCH products" /\ resp'.status = 200)
       => LET q == req'.query
              page == resp'.body.products
              n == Cardinality(Found(q))
          IN  /\ Len(page) = IF q.offset >= n THEN 0
                             ELSE IF n - q.offset < q.limit THEN n - q.offset
                             ELSE q.limit
              /\ \A i \in 1..Len(page) :
                    /\ page[i] \in Found(q)
                    /\ Cardinality({r \in Found(q) : Precedes(r, page[i], Term(q))})
                       = q.offset + i - 1]_vars

-----------------------------------------------------------------------------
(* The health check.  Its session comes from get_db as every route's does; *)
(* the probe is the one statement it may send.                             *)

\* datetime.now(UTC).isoformat()
Timestamp == "now"

\* health_data, a dict, as the sequence of its items in insertion order
health_data(status, database) ==
    <<<<"status", status>>, <<"service", "product-catalog-service">>,
      <<"version", "0.1.0">>, <<"timestamp", Timestamp>>, <<"database", database>>>>

\* a health check that reports a failed probe in a response it returns
health_check_returning(s, database_url, fault) ==
    IF database_url = None
    THEN WithBody(Returned(s, 200), health_data("healthy", "not configured"), 0)
    ELSE IF fault = "stmt"
    THEN WithBody(Returned(Abort(s), 200), health_data("unhealthy", "disconnected"), 1)
    ELSE IF fault = "cancel" THEN WithBody(Cancelled(s), NoBody, 1)
    ELSE WithBody(Returned(s, 200), health_data("healthy", "connected"), 1)

\* GET /health; fault "stmt": the probe raises
health_check(s, database_url, fault) ==
    IF database_url = None
    THEN WithBody(Returned(s, 200), health_data("healthy", "not configured"), 0)
    ELSE IF fault = "stmt"
    THEN LET detail == health_data("unhealthy", "disconnected")
                           \o <<<<"error", ProbeErrorText>>>>
         IN  WithBody([Raised(Abort(s), 503, "")
                          EXCEPT !.detail = [type |-> "dict", items |-> detail]],
                      NoBody, 1)
    ELSE IF fault = "cancel" THEN WithBody(Cancelled(s), NoBody, 1)
    ELSE WithBody(Returned(s, 200), health_data("healthy", "connected"), 1)

GetHealth(Flts) ==
    \E fault \in Flts :
        ServeQuery("GET health", NoBody, fault,
                   health_check(Open, settings.database_url, fault))

-----------------------------------------------------------------------------
(* SpecErrors: the responses.  The service runs in development or in       *)
(* production, with or without a database URL.  Up to two categories and   *)
(* one product are created, read, updated and deleted, also with ids and   *)
(* parents that do not exist, with an empty update and with a price range  *)
(* that is inverted; statements and commits may fail; the health check is  *)
(* called with a probe that succeeds or fails.                             *)

ErrorCats == 2

ErrorSettings ==
    [environment : {"development", "production"},
     database_url : {None, "postgresql+asyncpg://db/catalog"}]

InitErrors == StartWith({TRUE}, ErrorSettings)

NextErrors ==
    \/ PostCategory(ErrorCats, CategoryBodies({"a"}, {NoId, ErrorCats + 1}, {None}),
                    {"none", "stmt", "commit"})
    \/ GetCategory(1..ErrorCats, {"none", "stmt"})
    \/ PutCategory(1..ErrorCats, CategoryBodies({None, "b"}, {NoId}, {None}),
                   {"none", "commit"})
    \/ DeleteCategory(1..ErrorCats, {"none"})
    \/ PostProduct(MaxProds, {EventsProduct}, {"none", "stmt"}, {"none"})
    \/ GetProduct(ProdIds, {"none"})
    \/ DeleteProduct(ProdIds, {"none", "cancel"}, {"none"})
    \/ ListProducts([category_id : {NoId}, min_price : {1}, max_price : {0, 1},
                    name : {None}, offset : {0}, limit : {1}], {"none", "stmt"})
    \/ GetHealth({"none", "stmt", "cancel"})

SpecErrors == InitErrors /\ [][NextErrors]_vars

-----------------------------------------------------------------------------
(* The health check (SpecErrors) *)

\* the value of a key of a dict given as its items
Item(items, key) == (CHOOSE i \in 1..Len(items) : items[i][1] = key)

ItemValue(items, key) == items[Item(items, key)][2]

\* text has term in it, as it is written
HasText(text, term) ==
    \E i \in 1..(Len(text) - Len(term) + 1) : SubSeq(text, i, i + Len(term) - 1) = term

-----------------------------------------------------------------------------
(* The error responses (SpecErrors) *)

\* str(exc.detail)
DetailText(detail) == IF detail.type = "str" THEN detail.value ELSE DictStr(detail.items)

\* C17: every response to an HTTPException with status S raised in a route,
\* the 404 "not found" raises of the category and product routes included,
\* has the error code "HTTP{S}", the detail text of the raise as its
\* message, and the headers X-Correlation-ID and X-Error-Code.
C17_HttpErrorFormat ==
    [][resp'.exc = "HTTPException" =>
         /\ resp'.sent.status_code = resp'.status
         /\ resp'.sent.error = "HTTP" \o ToString(resp'.status)
         /\ resp'.sent.message = DetailText(resp'.detail)
         /\ {"X-Correlation-ID", "X-Error-Code"} \subseteq resp'.sent.headers]_vars

\* what the exceptions of the database layer are called and say
InternalTexts == {ProbeErrorText, CommitErrorText, "CommitError"}

\* C18: when the environment is not "development", no response has a
\* traceback or a debug_info map, or the type name or the text of an
\* internal exception in it; an unexpected exception is reported as 500,
\* "InternalServerError", "An unexpected error occurred".
C18_NoInternalsInProduction ==
    [][(settings.environment # "development" /\ resp'.sent.status_code # 0) =>
         /\ ~resp'.sent.traceback
         /\ ~resp'.sent.debug_info
         /\ \A t \in InternalTexts :
               /\ ~HasText(resp'.sent.error, t)
               /\ ~HasText(resp'.sent.message, t)
         /\ (resp'.exc = "CommitError" /\ resp'.status = 500) =>
               /\ resp'.sent.status_code = 500
               /\ resp'.sent.error = "InternalServerError"
               /\ resp'.sent.message = "An unexpected error occurred"]_vars

-----------------------------------------------------------------------------
(* The request schemas of the product routes.  A body that does not pass   *)
(* is answered 422 by the framework; the route does not run.               *)

\* ProductCreate
ProductCreate_validate(body) ==
    /\ body.name # ""
    /\ NonNegative(body.price)
    /\ NonNegative(body.stock_quantity)

\* ProductUpdate: every field may be None
ProductUpdate_validate(body) ==
    /\ body.name # ""
    /\ body.price = NoneNum \/ NonNegative(body.price)
    /\ body.stock_quantity = NoneNum \/ NonNegative(body.stock_quantity)

\* POST /api/v1/products/ with a body as it comes in; req keeps the body
PostProductBody(limit, Bodies, Flts) ==
    /\ nextProd <= limit
    /\ \E body \in Bodies, fault \in Flts :
          Serve(Request("POST product", nextProd, body, fault, "none") @@ [body |-> body],
                IF ProductCreate_validate(body)
                THEN create_product(Open, nextProd, body, fault, "none", events_enabled)
                ELSE Invalid(Open))

\* PUT /api/v1/products/{product_id} with a body as it comes in
PutProductBody(Ids, Bodies, Flts) ==
    \E id \in Ids, body \in Bodies, fault \in Flts :
        Serve(Request("PUT product", id, body, fault, "none") @@ [body |-> body],
              IF ProductUpdate_validate(body)
              THEN update_product(Open, id, body, fault, "none", events_enabled)
              ELSE Invalid(Open))

-----------------------------------------------------------------------------
(* SpecChecks: prices and stock.  One category and up to CheckProds        *)
(* products are created and updated with prices and stock quantities that  *)
(* are negative, zero and positive; statements and commits may fail.       *)

CheckProds == 2

CheckCreates ==
    [name : {"Tv"}, description : {None}, category_id : {1}, price : {0 - 2, 0, 1},
     stock_quantity : {0 - 2, 0, 1}, attributes : {"{}"}]

CheckUpdates ==
    [name : {None}, description : {None}, category_id : {NoId},
     price : {NoneNum, 0 - 2, 0, 2}, stock_quantity : {NoneNum, 0 - 2, 0, 2},
     attributes : {None}]

NextChecks ==
    \/ PostCategory(1, CategoryBodies({"a"}, {NoId}, {None}), {"none"})
    \/ PostProductBody(CheckProds, CheckCreates, {"none", "commit"})
    \/ PutProductBody(1..CheckProds, CheckUpdates, {"none", "stmt"})
    \/ GetProduct(1..CheckProds, {"none"})

SpecChecks == Init /\ [][NextChecks]_vars

\* C19: every stored product has a price and a stock quantity that are not
\* negative, whatever create and update requests were made.
C19_NonNegativeStored ==
    \A p \in DOMAIN products :
        /\ products[p].price >= 0
        /\ products[p].stock_quantity >= 0

\* an update with a negative price or stock quantity was made on a stored
\* product whose price is 0
C19_Witness ==
    /\ req.op = "PUT product"
    /\ req.id \in DOMAIN products
    /\ req.body.price = 0 - 2 \/ req.body.stock_quantity = 0 - 2
    /\ products[req.id].price = 0

-----------------------------------------------------------------------------
(* SpecSessions: the life of a session, step by step.  get_db and          *)
(* get_db_context enter "async with async_session() as session", yield the *)
(* session, commit when the caller returns, roll back when an exception    *)
(* comes, close in the finally block; the session's own context manager    *)
(* then closes it again, shielded from cancellation.  The caller returns,  *)
(* raises or is cancelled; commit and rollback succeed, raise or are       *)
(* cancelled; the close of the finally block completes or is cancelled.    *)
(* A session: the function it came from, the place the function is at, the *)
(* exception under way, whether it holds resources, how many close() calls *)
(* completed on it and how often its resources were released.              *)

MaxSessions == 2

\* the requests and the tables stay as they are while sessions are followed
Rest == <<Served, Process>>

\* a close() that releases nothing
session_close_nothing(s) == [s EXCEPT !.closes = @ + 1]

\* AsyncSession.close()
session_close(s) ==
    [s EXCEPT !.open = FALSE, !.closes = @ + 1,
              !.released = IF s.open THEN @ + 1 ELSE @]

\* what an awaited call of the session ends with
Outcomes == {"ok", "raises", "cancelled"}

\* async with async_session() as session: ... yield session
Acquire(via) ==
    /\ Len(sessions) < MaxSessions
    /\ sessions' = Append(sessions, [via |-> via, pc |-> "yielded", exc |-> "none",
                                     open |-> TRUE, closes |-> 0, released |-> 0])
    /\ UNCHANGED Rest

\* the caller is done with the session: it returns, an exception leaves it,
\* or its task is cancelled
Caller(i) ==
    /\ sessions[i].pc = "yielded"
    /\ \E outcome \in Outcomes :
          sessions' = [sessions EXCEPT ![i] =
              CASE outcome = "ok" -> [@ EXCEPT !.pc = "commit"]
                [] outcome = "raises" -> [@ EXCEPT !.pc = "except", !.exc = "Exception"]
                [] outcome = "cancelled" ->
                      [@ EXCEPT !.pc = "finally", !.exc = "CancelledError"]]
    /\ UNCHANGED Rest

\* await session.commit()
Commit(i) ==
    /\ sessions[i].pc = "commit"
    /\ \E outcome \in Outcomes :
          sessions' = [sessions EXCEPT ![i] =
              CASE outcome = "ok" -> [@ EXCEPT !.pc = "finally"]
                [] outcome = "raises" -> [@ EXCEPT !.pc = "except", !.exc = "Exception"]
                [] outcome = "cancelled" ->
                      [@ EXCEPT !.pc = "finally", !.exc = "CancelledError"]]
    /\ UNCHANGED Rest

\* except Exception: await session.rollback(); raise
Rollback(i) ==
    /\ sessions[i].pc = "except"
    /\ \E outcome \in Outcomes :
          sessions' = [sessions EXCEPT ![i] =
              CASE outcome = "ok" -> [@ EXCEPT !.pc = "finally"]
                [] outcome = "raises" -> [@ EXCEPT !.pc = "finally", !.exc = "RollbackError"]
                [] outcome = "cancelled" ->
                      [@ EXCEPT !.pc = "finally", !.exc = "CancelledError"]]
    /\ UNCHANGED Rest

\* finally: await session.close()
Finally(i) ==
    /\ sessions[i].pc = "finally"
    /\ \E outcome \in {"ok", "cancelled"} :
          sessions' = [sessions EXCEPT ![i] =
              IF outcome = "ok" THEN [session_close(@) EXCEPT !.pc = "aexit"]
              ELSE [@ EXCEPT !.pc = "aexit", !.exc = "CancelledError"]]
    /\ UNCHANGED Rest

\* AsyncSession.__aexit__: close(), shielded
AExit(i) ==
    /\ sessions[i].pc = "aexit"
    /\ sessions' = [sessions EXCEPT ![i] = [session_close(@) EXCEPT !.pc = "done"]]
    /\ UNCHANGED Rest

NextSessions ==
    \/ \E via \in {"get_db", "get_db_context"} : Acquire(via)
    \/ \E i \in DOMAIN sessions : Caller(i)
    \/ \E i \in DOMAIN sessions : Commit(i)
    \/ \E i \in DOMAIN sessions : Rollback(i)
    \/ \E i \in DOMAIN sessions : Finally(i)
    \/ \E i \in DOMAIN sessions : AExit(i)

SpecSessions == Init /\ [][NextSessions]_vars

\* the sessions whose get_db or get_db_context has ended
Ended == {i \in DOMAIN sessions : sessions[i].pc = "done"}

-----------------------------------------------------------------------------
(* The hierarchy (SpecPaths) *)

\* C30: the category hierarchy stays a forest: after any sequence of
\* category creates and updates, following parent_id from any stored
\* category reaches a root; no category is its own parent or ancestor.
C30_Forest ==
    \A c \in DOMAIN categories :
        /\ Rooted(categories, c)
        /\ ~OnCycle(categories, c)

-----------------------------------------------------------------------------
(* SpecVectors: updates of one product that overlap.  update_product loads *)
(* the product into its session and awaits before ProductRepository.update *)
(* sets the fields and flushes, so another request may be served between   *)
(* the two.  The flush sends an UPDATE of the columns whose attributes     *)
(* changed on the loaded object; the row it changes is the committed one   *)
(* (READ COMMITTED), and the commit of get_db follows while the row is     *)
(* still locked.  The sessions in flight are kept in sessions, each with   *)
(* the product it loaded and the fields of its request.                    *)

MaxUpdates == 2

VectorUpdates == {ProductUpdate(F) : F \in SUBSET {"name", "description", "price"}}

\* update_product up to original_product = await repo.get(product_id)
BeginUpdate(id, body) ==
    /\ Len(sessions) < MaxUpdates
    /\ id \in DOMAIN products
    /\ DOMAIN product_update_data(body) # {}
    /\ sessions' = Append(sessions, [via |-> "get_db", pc |-> "loaded", id |-> id,
                                     update_data |-> product_update_data(body),
                                     product |-> products[id]])
    /\ UNCHANGED Rest

\* the rest of it: repo.update (setattr, search vector, flush), commit
FlushUpdate(i) ==
    /\ sessions[i].pc = "loaded"
    /\ LET id == sessions[i].id
           loaded == sessions[i].product
           r == ProductRepository_update(
                    Session(categories, [products EXCEPT ![id] = loaded]),
                    id, sessions[i].update_data, FALSE)
           new == r.s.prods[id]
           changed == {k \in DOMAIN loaded : new[k] # loaded[k]}
       IN  /\ r.exc = "none"
           /\ products' = [products EXCEPT ![id] =
                              [k \in DOMAIN loaded |->
                                  IF k \in changed THEN new[k] ELSE products[id][k]]]
           /\ sessions' = [sessions EXCEPT ![i].pc = "done", ![i].product = new]
    /\ UNCHANGED <<categories, nextCat, nextProd, events_enabled, settings, req, resp,
                   logged, Process>>

NextVectors ==
    \/ PostCategory(1, CategoryBodies({"a"}, {NoId}, {None}), {"none"})
    \/ PostProduct(MaxProds, {EventsProduct}, {"none"}, {"none"})
    \/ \E body \in VectorUpdates : BeginUpdate(1, body)
    \/ \E i \in DOMAIN sessions : FlushUpdate(i)

SpecVectors == Init /\ [][NextVectors]_vars

-----------------------------------------------------------------------------
(* The search vector *)

\* the search vector the name and the description of a product ask for
VectorOf(row) ==
    Lower(row.name \o " " \o (IF row.description = None THEN "" ELSE row.description))

\* C29: in every reachable state the search_vector of every stored product
\* is the lower-cased string name + " " + (description or the empty string)
\* of its current name and description, after any sequence of product
\* creates and updates.
C29_SearchVector ==
    \A p \in DOMAIN products : products[p].search_vector = VectorOf(products[p])

-----------------------------------------------------------------------------
(* SpecMiddleware: requests on their way through the middleware stack, one *)
(* layer at a time, so that the steps of different requests interleave.    *)
(* A BaseHTTPMiddleware runs the application below it in a task of its own *)
(* (call_next); a task starts with a copy of the context of the task that  *)
(* created it, and what it sets afterwards stays in its own context.       *)

MaxRequests == 2

\* Starlette.add_middleware: self.user_middleware.insert(0, Middleware(cls))
add_middleware(stack, cls) == <<cls>> \o stack

\* the calls of main.py, in their order
user_middleware ==
    add_middleware(
        add_middleware(
            add_middleware(
                add_middleware(<<>>, "ErrorHandlingMiddleware"),
                "LoggingMiddleware"),
            "HTTPMetricsMiddleware"),
        "CORSMiddleware")

\* Starlette.build_middleware_stack: the first one is the outermost, the
\* last one wraps the router
middleware_stack ==
    <<"ServerErrorMiddleware">> \o user_middleware \o <<"ExceptionMiddleware">>

\* the value of the three ContextVars in a task that set none of them
DefaultContext == [request_id |-> None, correlation_id |-> None, user_id |-> None]

\* a variable of the module that every task shares
ContextVar_set_global(ctxs, task, name, value) ==
    [t \in DOMAIN ctxs |-> [ctxs[t] EXCEPT ![name] = value]]

\* ContextVar.set in a task
ContextVar_set(ctxs, task, name, value) == [ctxs EXCEPT ![task][name] = value]

clear_context(ctxs, task) ==
    ContextVar_set(ContextVar_set(ContextVar_set(ctxs, task, "request_id", None),
                                  task, "correlation_id", None),
                   task, "user_id", None)

\* the task call_next creates, or the first task of a request
copy_context(ctxs, task, context) == (task :> context) @@ ctxs

\* a task ended: nothing reads its context any more
end_task(ctxs, task) == [t \in DOMAIN ctxs \ {task} |-> ctxs[t]]

\* ServerErrorMiddleware.error_response without debug
PlainTextResponse(content, status_code) ==
    ErrorResponse(status_code, None, content, FALSE, FALSE, {})

NoOutcome == [kind |-> "none", response |-> NoResponse, by |-> None]
Responded(response, by) == [kind |-> "response", response |-> response, by |-> by]
Raising(by) == [kind |-> "raise", response |-> NoResponse, by |-> by]

\* what the route does: it returns, raises an HTTPException or raises
\* something else
Handlers == {"returns", "HTTPException", "Exception"}

\* the middleware whose own code raises
MiddlewareFaults == {"none", "LoggingMiddleware", "HTTPMetricsMiddleware"}

\* the label of a response, whatever came back from call_next
status_code_of_response(out) == ToString(out.response.status_code)

\* Counter.labels(status_code = label).inc()
inc(counter, label) ==
    IF label \in DOMAIN counter THEN [counter EXCEPT ![label] = @ + 1]
    ELSE (label :> 1) @@ counter

\* HTTPMetricsMiddleware.dispatch after call_next: the label of the request
status_code_label(out) ==
    IF out.kind = "response" THEN ToString(out.response.status_code) ELSE "500"

\* a connection hands a request to the application
Receive(handler, fault) ==
    /\ Len(requests) < MaxRequests
    /\ LET i == Len(requests) + 1
       IN  /\ requests' = Append(requests,
                  [request_id |-> "r" \o ToString(i),
                   correlation_id |-> "c" \o ToString(i),
                   handler |-> handler, fault |-> fault, depth |-> 1, dir |-> "down",
                   out |-> NoOutcome, read |-> DefaultContext, counted |-> <<>>,
                   observed |-> 0])
           /\ contexts' = copy_context(contexts, <<i, 1>>, DefaultContext)
    /\ UNCHANGED <<Served, sessions, metrics, updater, lifespan>>

\* a middleware up to its call of the application below it
Enter(i) ==
    LET r == requests[i]
        layer == middleware_stack[r.depth]
        task == <<i, r.depth>>
        below == <<i, r.depth + 1>>
    IN  /\ r.dir = "down"
        /\ r.depth < Len(middleware_stack)
        /\ IF layer = "HTTPMetricsMiddleware" /\ r.fault = layer
           \* _get_endpoint_label, before the try
           THEN /\ requests' = [requests EXCEPT ![i].dir = "up", ![i].depth = @ - 1,
                                                ![i].out = Raising(layer)]
                /\ UNCHANGED contexts
           ELSE IF layer = "LoggingMiddleware"
           THEN LET set == ContextVar_set(
                               ContextVar_set(contexts, task, "request_id",
                                              r.request_id),
                               task, "correlation_id", r.correlation_id)
                IN  /\ contexts' = copy_context(set, below, set[task])
                    /\ requests' = [requests EXCEPT ![i].depth = @ + 1]
           ELSE /\ contexts' = copy_context(contexts, below, contexts[task])
                /\ requests' = [requests EXCEPT ![i].depth = @ + 1]
        /\ UNCHANGED <<Served, sessions, metrics, updater, lifespan>>

\* ExceptionMiddleware and the route below it
Handle(i) ==
    LET r == requests[i]
        exc == [type |-> "HTTPException", status_code |-> 400,
                detail |-> [type |-> "str", value |-> "No update data provided"],
                headers |-> FALSE]
    IN  /\ r.dir = "down"
        /\ r.depth = Len(middleware_stack)
        /\ requests' = [requests EXCEPT
              ![i].dir = "up", ![i].depth = @ - 1,
              ![i].read = contexts[<<i, r.depth>>],
              ![i].out =
                  CASE r.handler = "returns" -> Responded(JSONResponse(200), "route")
                    [] r.handler = "HTTPException" ->
                          Responded(exception_handlers(exc, "/api/v1/products/1",
                                                       settings.environment),
                                    "ExceptionMiddleware")
                    [] r.handler = "Exception" -> Raising("route")]
        /\ UNCHANGED <<Served, sessions, contexts, metrics, updater, lifespan>>

\* a middleware from the return of call_next on
Leave(i) ==
    LET r == requests[i]
        layer == middleware_stack[r.depth]
        task == <<i, r.depth>>
        raised == r.out.kind = "raise"
        \* the task call_next created has ended
        ctxs == end_task(contexts, <<i, r.depth + 1>>)
    IN  /\ r.dir = "up"
        /\ r.depth >= 1
        /\ CASE layer = "ErrorHandlingMiddleware" ->
                  /\ requests' = [requests EXCEPT ![i].depth = @ - 1,
                        ![i].out =
                            IF raised
                            THEN Responded(dispatch([type |-> "Exception",
                                                     text |-> CommitErrorText],
                                                    settings.environment), layer)
                            ELSE @]
                  /\ contexts' = ctxs
                  /\ UNCHANGED metrics
             [] layer = "LoggingMiddleware" ->
                  /\ requests' = [requests EXCEPT ![i].depth = @ - 1,
                        ![i].out =
                            IF raised THEN @
                            ELSE IF r.fault = layer THEN Raising(layer)
                            ELSE Responded(LoggingMiddleware(@.response), @.by)]
                  /\ contexts' = clear_context(ctxs, task)
                  /\ UNCHANGED metrics
             [] layer = "HTTPMetricsMiddleware" ->
                  \* after _get_endpoint_label raised there is no finally
                  IF r.out.by = layer
                  THEN /\ requests' = [requests EXCEPT ![i].depth = @ - 1]
                       /\ contexts' = ctxs
                       /\ UNCHANGED metrics
                  ELSE /\ requests' = [requests EXCEPT ![i].depth = @ - 1,
                              ![i].counted = Append(@, status_code_label(r.out)),
                              ![i].observed = @ + 1]
                       /\ metrics' =
                              [http_requests_total |->
                                   inc(metrics.http_requests_total,
                                       status_code_label(r.out)),
                               http_request_duration_seconds |->
                                   Append(metrics.http_request_duration_seconds, i)]
                       /\ contexts' = ctxs
             [] layer = "ServerErrorMiddleware" ->
                  /\ requests' = [requests EXCEPT ![i].depth = @ - 1,
                        ![i].out =
                            IF raised
                            THEN Responded(PlainTextResponse("Internal Server Error",
                                                             500), layer)
                            ELSE @]
                  /\ contexts' = ctxs
                  /\ UNCHANGED metrics
             [] OTHER ->
                  /\ requests' = [requests EXCEPT ![i].depth = @ - 1]
                  /\ contexts' = ctxs
                  /\ UNCHANGED metrics
        /\ UNCHANGED <<Served, sessions, updater, lifespan>>

NextMiddleware ==
    \/ \E handler \in Handlers, fault \in MiddlewareFaults : Receive(handler, fault)
    \/ \E i \in DOMAIN requests : Enter(i)
    \/ \E i \in DOMAIN requests : Handle(i)
    \/ \E i \in DOMAIN requests : Leave(i)

SpecMiddleware == Init /\ [][NextMiddleware]_vars

-----------------------------------------------------------------------------
(* The middleware stack (SpecMiddleware) *)

\* the request has been answered
Answered(r) == r.depth = 0

\* C21: whenever a request was answered after the logging middleware, the
\* metrics middleware or the route raised an exception, the answer is the
\* JSON ErrorResponse the error-handling middleware made of it
C21_ErrorHandlingOutermost ==
    \A i \in DOMAIN requests :
        LET r == requests[i]
        IN  Answered(r) /\ (r.fault # "none" \/ r.handler = "Exception")
                => /\ r.out.kind = "response"
                   /\ r.out.by = "ErrorHandlingMiddleware"
                   /\ r.out.response.error # None

\* the requests the metrics middleware passed on to the application below
PassedOn(r) == r.fault # "HTTPMetricsMiddleware"

\* C27: a request the metrics middleware passed on has, once it is answered,
\* incremented http_requests_total exactly once and been observed in
\* http_request_duration_seconds exactly once, whether the route returned or
\* raised, never more than once before, and the status_code label is the
\* status of the response, "500" when the route raised
C27_CountedOnce ==
    /\ \A i \in DOMAIN requests :
          LET r == requests[i]
          IN  /\ Len(r.counted) <= 1 /\ r.observed = Len(r.counted)
              /\ Answered(r) /\ PassedOn(r)
                    => /\ Len(r.counted) = 1
                       /\ r.counted[1] = ToString(r.out.response.status_code)
                       /\ r.handler = "Exception" => r.counted[1] = "500"
    /\ \A label \in DOMAIN metrics.http_requests_total :
          metrics.http_requests_total[label] =
              Cardinality({i \in DOMAIN requests : requests[i].counted = <<label>>})
    /\ Len(metrics.http_request_duration_seconds) =
          Cardinality({i \in DOMAIN requests : requests[i].observed = 1})

\* one request whose route raised and one whose route returned, both counted
C27_Witness ==
    \E i, j \in DOMAIN requests :
        /\ Answered(requests[i]) /\ requests[i].handler = "Exception"
        /\ requests[i].counted = <<"500">>
        /\ Answered(requests[j]) /\ requests[j].handler = "returns"
        /\ requests[j].counted = <<"200">>
        /\ metrics.http_requests_total = ("200" :> 1) @@ ("500" :> 1)

\* C22: the logging context a route reads is the one its own request set; no
\* task of a request ever holds the request_id or correlation_id of another
\* request; and once a request is answered the context of every task left
\* of it is clear
C22_ContextIsolated ==
    /\ \A i \in DOMAIN requests :
          LET r == requests[i]
          IN  /\ r.out.by \in {"route", "ExceptionMiddleware"}
                    => /\ r.read.request_id = r.request_id
                       /\ r.read.correlation_id = r.correlation_id
              /\ Answered(r) => \A task \in DOMAIN contexts :
                                    task[1] = i => contexts[task] = DefaultContext
    /\ \A task \in DOMAIN contexts :
          /\ contexts[task].request_id \in {None, requests[task[1]].request_id}
          /\ contexts[task].correlation_id \in {None, requests[task[1]].correlation_id}

\* the route of one request has read its context while a second request,
\* which has set its own, is about to read it
C22_Witness ==
    /\ Len(requests) = 2
    /\ requests[1].out.by = "route" /\ ~Answered(requests[1])
    /\ requests[1].read.request_id = "r1"
    /\ requests[2].dir = "down" /\ requests[2].depth = Len(middleware_stack)
    /\ contexts[<<2, Len(middleware_stack)>>].request_id = "r2"

-----------------------------------------------------------------------------
(* SpecPool: the connection pool metrics.  get_db updates them before it   *)
(* yields the session, db_metrics_context when the timed operation ends.   *)

MaxOperations == 2

\* the pools by what introspection meets: the three accessors work
\* (QueuePool), are missing (NullPool), are not callable (TypeError), raise
Pools == {"QueuePool", "NullPool", "NotCallable", "Raising"}

\* what calling size(), checkedout() and overflow() raises
AccessorError(pool) ==
    CASE pool = "NotCallable" -> "TypeError"
      [] pool = "Raising" -> "RuntimeError"
      [] OTHER -> "none"

\* hasattr(pool, method) for the three of them
HasAccessors(pool) == pool # "NullPool"

\* _update_pool_metrics: every exception is caught in it
_update_pool_metrics(pool) ==
    [exc |-> "none", updated |-> HasAccessors(pool) /\ AccessorError(pool) = "none"]

\* db_metrics_context around an operation that ends as body says: the
\* finally calls the accessors unguarded, and what they raise replaces
\* what the operation raised
db_metrics_context(pool, body) ==
    IF HasAccessors(pool) /\ AccessorError(pool) # "none"
    THEN [exc |-> AccessorError(pool), updated |-> FALSE]
    ELSE [exc |-> body, updated |-> HasAccessors(pool)]

\* get_db up to the end of the request it serves
PoolGetDb(pool, body) ==
    /\ Len(sessions) < MaxOperations
    /\ LET m == _update_pool_metrics(pool)
       IN  sessions' = Append(sessions,
               [via |-> "get_db", pool |-> pool, body |-> body,
                exc |-> IF m.exc # "none" THEN m.exc ELSE body,
                updated |-> m.updated])
    /\ UNCHANGED Rest

\* async with db_metrics_context(session, operation, table): ...
PoolTimedOperation(pool, body) ==
    /\ Len(sessions) < MaxOperations
    /\ LET m == db_metrics_context(pool, body)
       IN  sessions' = Append(sessions,
               [via |-> "db_metrics_context", pool |-> pool, body |-> body,
                exc |-> m.exc, updated |-> m.updated])
    /\ UNCHANGED Rest

NextPool ==
    \/ \E pool \in Pools, body \in {"none", "Exception", "CancelledError"} :
          PoolGetDb(pool, body)
    \/ \E pool \in Pools, body \in {"none", "Exception", "CancelledError"} :
          PoolTimedOperation(pool, body)

SpecPool == Init /\ [][NextPool]_vars

\* C28: whatever the pool is like, the operation around the introspection
\* ends as it would have ended without it, in get_db and in
\* db_metrics_context
C28_IntrospectionNeverFails ==
    \A i \in DOMAIN sessions : sessions[i].exc = sessions[i].body

-----------------------------------------------------------------------------
(* SpecUpdater: the background metrics updater.  start and stop are called *)
(* in any order, a stop while another call awaits included; the loop tasks *)
(* advance from one await to the next, as the event loop resumes them.     *)

MaxTasks == 2
MaxStops == 2

\* how an awaited step of a cycle ends: it returns, it raises (and
\* _update_catalog_metrics logs it), or an exception leaves
\* _update_catalog_metrics
LoopFaults == {"none", "raises", "escapes"}

\* asyncio.create_task(self._update_loop())
create_task ==
    [pc |-> "created", cancel_requested |-> FALSE, cancelled |-> FALSE, last |-> None]

\* a loop that a failed cycle ends
break_on_failure(task, fault) ==
    [task EXCEPT !.pc = "done",
                 !.last = IF fault = "escapes" THEN "escaped" ELSE "failed"]

\* a step of a cycle failed: except Exception of _update_catalog_metrics
\* logs it and the loop sleeps, except Exception of _update_loop does the
\* same with what escaped
on_failure(task, fault) ==
    IF fault = "escapes"
    THEN [task EXCEPT !.pc = "error_sleep", !.last = "escaped"]
    ELSE [task EXCEPT !.pc = "sleep", !.last = "failed"]

\* _update_loop with _update_catalog_metrics, from the await task is
\* suspended in to the next one
_update_loop(task, running, fault) ==
    IF task.cancel_requested
    \* CancelledError is thrown into the await
    THEN CASE task.pc = "created" -> [task EXCEPT !.pc = "done", !.cancelled = TRUE]
           \* except asyncio.CancelledError: break, after get_db_context closed
           \* the session
           [] task.pc \in {"products", "categories", "commit"} ->
                 [task EXCEPT !.pc = "closing"]
           [] task.pc \in {"closing", "sleep"} -> [task EXCEPT !.pc = "done"]
           \* inside except Exception no clause catches it
           [] task.pc = "error_sleep" ->
                 [task EXCEPT !.pc = "done", !.cancelled = TRUE]
    ELSE CASE task.pc \in {"created", "sleep", "error_sleep"} ->
                 \* while self._running
                 IF running
                 THEN [task EXCEPT !.pc = "products"]
                 ELSE [task EXCEPT !.pc = "done"]
           [] task.pc \in {"products", "categories", "commit"} ->
                 IF fault # "none" THEN on_failure(task, fault)
                 ELSE CASE task.pc = "products" -> [task EXCEPT !.pc = "categories"]
                        [] task.pc = "categories" -> [task EXCEPT !.pc = "commit"]
                        [] task.pc = "commit" ->
                              [task EXCEPT !.pc = "sleep", !.last = "ok"]
           [] task.pc = "closing" -> [task EXCEPT !.pc = "done"]

\* Task.cancel()
cancel(task) == IF task.pc = "done" THEN task ELSE [task EXCEPT !.cancel_requested = TRUE]

\* await self._task without the try around it
await_task(task) == IF task.cancelled THEN "CancelledError" ELSE None

\* try: await self._task / except asyncio.CancelledError: pass
stop_await(task) == IF await_task(task) = "CancelledError" THEN None ELSE await_task(task)

\* BackgroundMetricsUpdater.start
start ==
    /\ IF updater._running
       THEN updater' = [updater EXCEPT !.warned = TRUE]
       ELSE /\ Len(updater.tasks) < MaxTasks
            /\ updater' = [updater EXCEPT
                  !._running = TRUE,
                  !.tasks = Append(@, create_task),
                  !._task = Len(updater.tasks) + 1,
                  !.stops = {[s EXCEPT !.started = TRUE] : s \in @},
                  !.returned.quiet = FALSE]
    /\ UNCHANGED <<Served, sessions, requests, contexts, metrics, lifespan>>

\* the event loop resumes a loop task
LoopStep(t) ==
    /\ t \in DOMAIN updater.tasks
    /\ updater.tasks[t].pc # "done"
    /\ \E fault \in IF updater.tasks[t].pc \in {"products", "categories", "commit"}
                       /\ ~updater.tasks[t].cancel_requested
                    THEN LoopFaults ELSE {"none"} :
          updater' = [updater EXCEPT
              !.tasks[t] = _update_loop(@, updater._running, fault)]
    /\ UNCHANGED <<Served, sessions, requests, contexts, metrics, lifespan>>

\* BackgroundMetricsUpdater.stop up to await self._task, all of it when there
\* is no task
stop_cancel ==
    /\ Cardinality(updater.stops) < MaxStops
    /\ IF updater._task = NoId
       THEN updater' = [updater EXCEPT !._running = FALSE,
                                       !.returned = [exc |-> None, quiet |-> TRUE,
                                                     task |-> NoId]]
       ELSE updater' = [updater EXCEPT
               !._running = FALSE,
               !.tasks[updater._task] = cancel(@),
               !.stops = @ \cup {[task |-> updater._task, started |-> FALSE]}]
    /\ UNCHANGED <<Served, sessions, requests, contexts, metrics, lifespan>>

\* the task a stop awaits is done: stop returns, or raises what the await
\* raised
stop_return(s) ==
    /\ s \in updater.stops
    /\ updater.tasks[s.task].pc = "done"
    /\ updater' = [updater EXCEPT
          !.stops = @ \ {s},
          !.returned = [exc |-> stop_await(updater.tasks[s.task]),
                        quiet |-> ~s.started, task |-> s.task]]
    /\ UNCHANGED <<Served, sessions, requests, contexts, metrics, lifespan>>

NextUpdater ==
    \/ start
    \/ stop_cancel
    \/ \E s \in updater.stops : stop_return(s)
    \/ \E t \in 1..MaxTasks : LoopStep(t)

SpecUpdater == Init /\ [][NextUpdater]_vars

\* the event loop resumes every task that is ready, and a stop whose task is
\* done
SpecUpdaterFair ==
    /\ SpecUpdater
    /\ \A t \in 1..MaxTasks : WF_vars(LoopStep(t))
    /\ \A t \in 1..MaxTasks :
          WF_vars(\E s \in updater.stops : s.task = t /\ stop_return(s))

-----------------------------------------------------------------------------
(* The background updater (SpecUpdater, SpecUpdaterFair) *)

\* the loop tasks that have not finished
Alive == {t \in DOMAIN updater.tasks : updater.tasks[t].pc # "done"}

\* the loop tasks inside a cycle: querying, or closing the session of one
InCycle ==
    {t \in DOMAIN updater.tasks :
        updater.tasks[t].pc \in {"products", "categories", "commit", "closing"}}

\* C23: whatever the order and interleaving of start and stop, at most one
\* update loop is alive and at most one cycle is under way
C23_OneLoop ==
    /\ Cardinality(Alive) <= 1
    /\ Cardinality(InCycle) <= 1

\* the task exists and is suspended in one of these awaits
At(t, pcs) == t \in DOMAIN updater.tasks /\ updater.tasks[t].pc \in pcs

CancelRequested(t) == t \in DOMAIN updater.tasks /\ updater.tasks[t].cancel_requested

\* C24: a loop task ends only after it was cancelled, whatever failed in its
\* cycles, and a task that sleeps, after a cycle that failed as after one
\* that did not, eventually attempts another cycle unless it is cancelled
C24_LoopSurvivesFailures ==
    /\ [](\A t \in DOMAIN updater.tasks :
             updater.tasks[t].pc = "done" => updater.tasks[t].cancel_requested)
    /\ \A t \in 1..MaxTasks :
          At(t, {"sleep", "error_sleep"})
              ~> (At(t, {"products"}) \/ CancelRequested(t))

\* after a cycle that failed a task that was not cancelled has begun the next
C24_Witness ==
    \E t \in DOMAIN updater.tasks :
        /\ updater.tasks[t].last \in {"failed", "escaped"}
        /\ updater.tasks[t].pc = "products"
        /\ ~updater.tasks[t].cancel_requested

\* a call of stop awaits this task
Awaited(t) == \E s \in updater.stops : s.task = t

\* a loop task begins a cycle in this step
CycleBegins ==
    \E t \in DOMAIN updater.tasks :
        updater.tasks[t].pc # "products" /\ updater'.tasks[t].pc = "products"

\* C25: stop never raises; every call of stop returns, whatever the loop was
\* doing when it was called; and when it has returned, the loop task it
\* cancelled has finished and, as long as start has not been called since the
\* call began, no cycle begins
C25_StopTerminates ==
    /\ [](updater.returned.exc = None)
    /\ [](updater.returned.quiet /\ updater.returned.task # NoId
             => updater.tasks[updater.returned.task].pc = "done")
    /\ [][updater.returned.quiet /\ updater'.returned.quiet => ~CycleBegins]_vars
    /\ \A t \in 1..MaxTasks : Awaited(t) ~> ~Awaited(t)

\* stop has returned after cancelling a loop that slept after an error; that
\* loop ended with the CancelledError, which stop swallowed
C25_Witness ==
    /\ updater.returned.quiet
    /\ \E t \in DOMAIN updater.tasks :
          /\ updater.tasks[t].pc = "done"
          /\ updater.tasks[t].cancelled
          /\ updater.tasks[t].last = "escaped"

-----------------------------------------------------------------------------
(* SpecLifespan: the lifespan of the application, from startup to the end  *)
(* of shutdown, with the loop task of the updater running beside it.       *)
(* lifespan.closed lists what shutdown has stopped or closed, in order;    *)
(* lifespan.failed what raised while it was stopped or closed.             *)

InitLifespan == StartWith(BOOLEAN, ErrorSettings)

\* lifespan before the yield: init_db, start_background_metrics, the event
\* service
lifespan_startup ==
    /\ lifespan.pc = "startup"
    /\ lifespan' = [lifespan EXCEPT !.pc = "serving"]
    /\ updater' = [updater EXCEPT !._running = TRUE,
                                  !.tasks = Append(@, create_task),
                                  !._task = Len(updater.tasks) + 1]
    /\ UNCHANGED <<Served, sessions, requests, contexts, metrics>>

\* stop_background_metrics in its try: stop up to await self._task, or an
\* exception, which is logged
shutdown_stop_updater(fault) ==
    /\ lifespan.pc = "serving"
    /\ IF fault
       THEN /\ lifespan' = [lifespan EXCEPT !.pc = "events",
                                            !.failed = @ \cup {"updater"}]
            /\ UNCHANGED updater
       ELSE /\ lifespan' = [lifespan EXCEPT !.pc = "stopping"]
            /\ updater' = [updater EXCEPT !._running = FALSE,
                                          !.tasks[updater._task] = cancel(@)]
    /\ UNCHANGED <<Served, sessions, requests, contexts, metrics>>

\* stop from await self._task on
shutdown_updater_stopped ==
    /\ lifespan.pc = "stopping"
    /\ updater.tasks[updater._task].pc = "done"
    /\ lifespan' = [lifespan EXCEPT
          !.pc = "events",
          !.closed = IF stop_await(updater.tasks[updater._task]) = None
                     THEN Append(@, "updater") ELSE @,
          !.failed = IF stop_await(updater.tasks[updater._task]) = None
                     THEN @ ELSE @ \cup {"updater"}]
    /\ UNCHANGED <<Served, sessions, requests, contexts, metrics, updater>>

\* if settings.events_enabled: close_event_service in its try
shutdown_close_events(fault) ==
    /\ lifespan.pc = "events"
    /\ lifespan' = [lifespan EXCEPT
          !.pc = "db",
          !.closed = IF events_enabled /\ ~fault THEN Append(@, "events") ELSE @,
          !.failed = IF events_enabled /\ fault THEN @ \cup {"events"} ELSE @]
    /\ UNCHANGED <<Served, sessions, requests, contexts, metrics, updater>>

\* if settings.database_url: await close_db()
shutdown_close_db ==
    /\ lifespan.pc = "db"
    /\ lifespan' = [lifespan EXCEPT
          !.pc = "down",
          !.closed = IF settings.database_url # None THEN Append(@, "db") ELSE @]
    /\ UNCHANGED <<Served, sessions, requests, contexts, metrics, updater>>

NextLifespan ==
    \/ lifespan_startup
    \/ \E t \in 1..MaxTasks : LoopStep(t)
    \/ \E fault \in BOOLEAN : shutdown_stop_updater(fault)
    \/ shutdown_updater_stopped
    \/ \E fault \in BOOLEAN : shutdown_close_events(fault)
    \/ shutdown_close_db

SpecLifespan == InitLifespan /\ [][NextLifespan]_vars

\* what shutdown has to stop or close, in the order it has to
ToClose ==
    <<"updater">> \o (IF events_enabled THEN <<"events">> ELSE <<>>) \o <<"db">>

RECURSIVE Except(_, _)
\* the sequence without the elements of a set
Except(seq, set) ==
    IF seq = <<>> THEN <<>>
    ELSE IF Head(seq) \in set THEN Except(Tail(seq), set)
    ELSE <<Head(seq)>> \o Except(Tail(seq), set)

\* C26: when shutdown is over, the updater, the event service and the
\* database connections have been stopped or closed, in this order, except
\* the ones of the first two that failed; and whenever the database
\* connections are closed after the updater was stopped, no loop task is
\* alive
C26_ShutdownOrder ==
    /\ lifespan.pc = "down" => lifespan.closed = Except(ToClose, lifespan.failed)
    /\ "db" \in {lifespan.closed[i] : i \in DOMAIN lifespan.closed}
       /\ "updater" \notin lifespan.failed
          => Alive = {}

====
